---- MODULE Spec2Model ----
(***************************************************************************)
(* Model of the indexing-and-search pipeline of pulser_agents.indexing:    *)
(* the chunker (chunker.py), the vector store (storage.py), the indexer    *)
(* (indexer.py) and the search facade (search.py).                         *)
(*                                                                         *)
(* Python strings are sequences of one-character strings, so that          *)
(* len(), split(), strip(), startswith() and slicing are computed as the   *)
(* code computes them.  An Optional[T] is the empty sequence (None) or a   *)
(* one-element sequence <<v>>.                                             *)
(***************************************************************************)
EXTENDS Integers, Sequences, FiniteSets, TLC

(***************************************************************************)
(* Bounds of the model.                                                    *)
(***************************************************************************)
\* Number of calls made on one indexer in a behaviour.
MaxOps == 2

(***************************************************************************)
(* String helpers (Python str methods).                                    *)
(***************************************************************************)
None == <<>>

Some(v) == <<v>>

IsNone(o) == o = <<>>

Min(a, b) == IF a < b THEN a ELSE b

Max(a, b) == IF a > b THEN a ELSE b

\* str.isspace() for the characters the model uses.
Whitespace == {" ", "\n", "\t"}

\* s[a:b] for 0 <= a, b (Python slice, 0-based, end exclusive).
Slice(s, a, b) == SubSeq(s, a + 1, Min(b, Len(s)))

\* s.count("\n")
RECURSIVE CountNewlines(_)
CountNewlines(s) ==
    IF s = <<>> THEN 0
    ELSE (IF Head(s) = "\n" THEN 1 ELSE 0) + CountNewlines(Tail(s))

\* s.lstrip()
RECURSIVE LStrip(_)
LStrip(s) ==
    IF s # <<>> /\ Head(s) \in Whitespace THEN LStrip(Tail(s)) ELSE s

\* s.rstrip()
RECURSIVE RStrip(_)
RStrip(s) ==
    IF s # <<>> /\ s[Len(s)] \in Whitespace
    THEN RStrip(SubSeq(s, 1, Len(s) - 1))
    ELSE s

\* s.strip()
Strip(s) == RStrip(LStrip(s))

\* s.split("\n"): always at least one (possibly empty) line.
RECURSIVE SplitFrom(_, _, _)
SplitFrom(s, i, cur) ==
    IF i > Len(s) THEN <<cur>>
    ELSE IF s[i] = "\n" THEN <<cur>> \o SplitFrom(s, i + 1, <<>>)
    ELSE SplitFrom(s, i + 1, Append(cur, s[i]))

SplitLines(s) == SplitFrom(s, 1, <<>>)

\* "\n".join(lines)
RECURSIVE JoinLines(_)
JoinLines(lines) ==
    IF lines = <<>> THEN <<>>
    ELSE IF Len(lines) = 1 THEN lines[1]
    ELSE lines[1] \o <<"\n">> \o JoinLines(Tail(lines))

\* s.startswith(prefix)
StartsWith(s, prefix) ==
    /\ Len(prefix) <= Len(s)
    /\ SubSeq(s, 1, Len(prefix)) = prefix

\* str(n) for n >= 0
Digit(d) == <<"0", "1", "2", "3", "4", "5", "6", "7", "8", "9">>[d + 1]

RECURSIVE Str(_)
Str(n) == IF n < 10 THEN <<Digit(n)>> ELSE Append(Str(n \div 10), Digit(n % 10))

\* sum(len(l) + 1 for l in lines)
RECURSIVE SumLineSizes(_)
SumLineSizes(lines) ==
    IF lines = <<>> THEN 0
    ELSE Len(Head(lines)) + 1 + SumLineSizes(Tail(lines))

\* lines[-n:] for n >= 1
LastN(lines, n) ==
    IF Len(lines) <= n THEN lines ELSE SubSeq(lines, Len(lines) - n + 1, Len(lines))

(***************************************************************************)
(* Chunker (chunker.py).                                                   *)
(***************************************************************************)
\* Position (1-based) of the last "." of the final path component, 0 if none.
RECURSIVE LastDot(_, _)
LastDot(p, i) ==
    IF i = 0 \/ p[i] = "/" THEN 0
    ELSE IF p[i] = "." THEN i
    ELSE LastDot(p, i - 1)

\* Path(file_path).suffix.lower(); the model's paths are lower case.  A name
\* that only starts with a dot has no suffix.
Suffix(p) ==
    LET d == LastDot(p, Len(p)) IN
    IF d = 0 \/ d = 1 \/ p[d - 1] = "/" \/ d = Len(p) THEN <<>>
    ELSE SubSeq(p, d, Len(p))

\* Language names; a chunk without language has None.
Python == <<"p", "y", "t", "h", "o", "n">>

Markdown == <<"m", "a", "r", "k", "d", "o", "w", "n">>

Unknown == <<"u", "n", "k", "n", "o", "w", "n">>

\* CodeChunker.detect_language with LANGUAGE_MAP restricted to the
\* extensions of the model's paths; any other extension has no language.
detect_language(file_path) ==
    LET ext == Suffix(file_path) IN
    CASE ext = <<".", "p", "y">> -> Python
      [] ext = <<".", "m", "d">> -> Markdown
      [] OTHER -> None

\* Chunk.__post_init__ / _compute_hash: the id is a hash of
\* "file_path:content"; the hash is modelled as injective, so the id is
\* the hashed pair itself.
_compute_hash(file_path, content) == <<file_path, content>>

\* CodeChunker._create_chunk: every chunk starts without an embedding.
_create_chunk(file_path, content, start_line, end_line, chunk_type, language) ==
    [id |-> _compute_hash(file_path, content),
     content |-> content,
     file_path |-> file_path,
     start_line |-> start_line,
     end_line |-> end_line,
     chunk_type |-> chunk_type,
     language |-> language,
     embedding |-> None]

\* The loop of _chunk_simple over lines[i..], then its "remaining content"
\* step.  st = [chunks, current_chunk, current_size, start_line].
RECURSIVE ChunkSimpleLoop(_, _, _, _, _, _)
ChunkSimpleLoop(cfg, file_path, language, lines, i, st) ==
    IF i > Len(lines)
    THEN IF st.current_chunk # <<>>
            /\ Len(JoinLines(st.current_chunk)) >= cfg.min_chunk_size
         THEN Append(st.chunks,
                     _create_chunk(file_path, JoinLines(st.current_chunk),
                                   st.start_line, Len(lines), "block", language))
         ELSE st.chunks
    ELSE
      LET line == lines[i]
          line_size == Len(line) + 1
          flush == /\ st.current_size + line_size > cfg.max_chunk_size
                   /\ st.current_chunk # <<>>
          overlap_lines == Max(1, cfg.overlap \div 50)
          kept == LastN(st.current_chunk, overlap_lines)
          st1 == IF flush
                 THEN [chunks |-> Append(st.chunks,
                                   _create_chunk(file_path,
                                                 JoinLines(st.current_chunk),
                                                 st.start_line, i - 1,
                                                 "block", language)),
                       current_chunk |-> kept,
                       current_size |-> SumLineSizes(kept),
                       start_line |-> i - Len(kept)]
                 ELSE st
      IN ChunkSimpleLoop(cfg, file_path, language, lines, i + 1,
                         [st1 EXCEPT !.current_chunk = Append(@, line),
                                     !.current_size = @ + line_size])

_chunk_simple_FromLineZero(cfg, file_path, content, language) ==
    ChunkSimpleLoop(cfg, file_path, language, SplitLines(content), 1,
                    [chunks |-> <<>>, current_chunk |-> <<>>,
                     current_size |-> 0, start_line |-> 0])

_chunk_simple(cfg, file_path, content, language) ==
    ChunkSimpleLoop(cfg, file_path, language, SplitLines(content), 1,
                    [chunks |-> <<>>, current_chunk |-> <<>>,
                     current_size |-> 0, start_line |-> 1])

\* CodeChunker._split_large_chunk
_split_large_chunk(cfg, chunk, language) ==
    _chunk_simple(cfg, chunk.file_path, chunk.content, language)

\* \w of the regular expressions, for the characters the model uses.
WordChars ==
    {"a", "b", "c", "d", "e", "f", "g", "h", "i", "j", "k", "l", "m", "n",
     "o", "p", "q", "r", "s", "t", "u", "v", "w", "x", "y", "z", "_",
     "0", "1", "2", "3", "4", "5", "6", "7", "8", "9"}

\* Whether the literal lit occurs in s at index i (1-based).
LitAt(s, i, lit) ==
    /\ i + Len(lit) - 1 <= Len(s)
    /\ SubSeq(s, i, i + Len(lit) - 1) = lit

\* Index just after the longest run of characters of set cs starting at i.
RECURSIVE RunEnd(_, _, _)
RunEnd(s, i, cs) ==
    IF i <= Len(s) /\ s[i] \in cs THEN RunEnd(s, i + 1, cs) ELSE i

\* Index just after a match of \s+(\w+) at i, or 0.
WsWordEnd(s, i) ==
    LET j == RunEnd(s, i, Whitespace)
        k == RunEnd(s, j, WordChars)
    IN IF j > i /\ k > j THEN k ELSE 0

\* SPLIT_PATTERNS["python"]: the index just after a match of the named
\* pattern starting at index i, or 0 when it does not match there.
\*   class:     ^class\s+(\w+)
\*   function:  ^(?:async\s+)?def\s+(\w+)
\*   decorator: ^@\w+
PatternEnd(name, s, i) ==
    CASE name = "class" ->
           IF LitAt(s, i, <<"c", "l", "a", "s", "s">>)
           THEN WsWordEnd(s, i + 5) ELSE 0
      [] name = "function" ->
           IF LitAt(s, i, <<"d", "e", "f">>) THEN WsWordEnd(s, i + 3)
           ELSE IF LitAt(s, i, <<"a", "s", "y", "n", "c">>)
           THEN LET j == RunEnd(s, i + 5, Whitespace) IN
                IF j > i + 5 /\ LitAt(s, j, <<"d", "e", "f">>)
                THEN WsWordEnd(s, j + 3) ELSE 0
           ELSE 0
      [] name = "decorator" ->
           IF LitAt(s, i, <<"@">>)
           THEN LET k == RunEnd(s, i + 1, WordChars) IN
                IF k > i + 1 THEN k ELSE 0
           ELSE 0
      [] OTHER -> 0

\* ^ under re.MULTILINE: the start of the string or just after a newline.
IsLineStart(s, i) == i = 1 \/ s[i - 1] = "\n"

\* pattern.finditer(content): the 0-based start of every match, left to
\* right, a match never starting inside the previous one.
RECURSIVE FindIter(_, _, _)
FindIter(name, s, i) ==
    IF i > Len(s) THEN <<>>
    ELSE IF IsLineStart(s, i) /\ PatternEnd(name, s, i) > 0
    THEN <<i - 1>> \o FindIter(name, s, PatternEnd(name, s, i))
    ELSE FindIter(name, s, i + 1)

\* The patterns of a language in dict order; only python (of the model's
\* languages) has any.
SPLIT_PATTERNS(language) ==
    IF language = Python THEN <<"class", "function", "decorator">> ELSE <<>>

\* type_map of _find_boundaries
BoundaryType(name) == IF name \in {"function", "decorator"} THEN "function" ELSE "class"

\* CodeChunker._find_boundaries: (position, chunk type) of every match,
\* pattern by pattern.
RECURSIVE _find_boundaries(_, _)
_find_boundaries(content, patterns) ==
    IF patterns = <<>> THEN <<>>
    ELSE LET name == Head(patterns)
             hits == FindIter(name, content, 1)
         IN [k \in 1..Len(hits) |-> [pos |-> hits[k], chunk_type |-> BoundaryType(name)]]
            \o _find_boundaries(content, Tail(patterns))

\* list.sort(key=pos): a stable insertion sort by position.
RECURSIVE InsertByPos(_, _)
InsertByPos(sorted, b) ==
    IF sorted = <<>> THEN <<b>>
    ELSE IF b.pos < Head(sorted).pos THEN <<b>> \o sorted
    ELSE <<Head(sorted)>> \o InsertByPos(Tail(sorted), b)

RECURSIVE SortByPos(_)
SortByPos(bs) ==
    IF bs = <<>> THEN <<>>
    ELSE InsertByPos(SortByPos(SubSeq(bs, 1, Len(bs) - 1)), bs[Len(bs)])

\* The loop of _chunk_with_boundaries over boundaries[k..]:
\* st = [chunks, prev_pos].
RECURSIVE BoundaryLoop(_, _, _, _, _, _)
BoundaryLoop(cfg, file_path, language, content, bs, st) ==
    IF bs = <<>> THEN st
    ELSE
      LET pos == Head(bs).pos
          chunk_content == Strip(Slice(content, st.prev_pos, pos))
          emit == pos > st.prev_pos /\ Len(chunk_content) >= cfg.min_chunk_size
          start_line == CountNewlines(Slice(content, 0, st.prev_pos)) + 1
          end_line == CountNewlines(Slice(content, 0, pos))
      IN BoundaryLoop(cfg, file_path, language, content, Tail(bs),
           [chunks |-> IF emit
                       THEN Append(st.chunks,
                                   _create_chunk(file_path, chunk_content,
                                                 start_line, end_line,
                                                 "block", language))
                       ELSE st.chunks,
            prev_pos |-> pos])

\* The "split any oversized chunks" loop of _chunk_with_boundaries.
RECURSIVE SplitOversized(_, _, _)
SplitOversized(cfg, chunks, language) ==
    IF chunks = <<>> THEN <<>>
    ELSE (IF Len(Head(chunks).content) > cfg.max_chunk_size
          THEN _split_large_chunk(cfg, Head(chunks), language)
          ELSE <<Head(chunks)>>)
         \o SplitOversized(cfg, Tail(chunks), language)

\* CodeChunker._chunk_with_boundaries
_chunk_with_boundaries(cfg, file_path, content, language) ==
    LET lines == SplitLines(content)
        boundaries == _find_boundaries(content, SPLIT_PATTERNS(language))
        st == BoundaryLoop(cfg, file_path, language, content,
                           SortByPos(boundaries),
                           [chunks |-> <<>>, prev_pos |-> 0])
        rest == Strip(Slice(content, st.prev_pos, Len(content)))
        chunks == IF st.prev_pos < Len(content)
                     /\ Len(rest) >= cfg.min_chunk_size
                  THEN Append(st.chunks,
                              _create_chunk(file_path, rest,
                                  CountNewlines(Slice(content, 0, st.prev_pos)) + 1,
                                  Len(lines), "block", language))
                  ELSE st.chunks
    IN IF boundaries = <<>>
       THEN _chunk_simple(cfg, file_path, content, language)
       ELSE SplitOversized(cfg, chunks, language)

\* CodeChunker.chunk_file with the content already read: content is None
\* for a file that does not exist.
chunk_file(cfg, file_path, content) ==
    IF IsNone(content) THEN <<>>
    ELSE IF Strip(content[1]) = <<>> THEN <<>>
    ELSE LET language == detect_language(file_path) IN
         IF cfg.respect_boundaries /\ SPLIT_PATTERNS(language) # <<>>
         THEN _chunk_with_boundaries(cfg, file_path, content[1], language)
         ELSE _chunk_simple(cfg, file_path, content[1], language)

(***************************************************************************)
(* Python dict with insertion order: a sequence of <<key, value>> pairs.   *)
(***************************************************************************)
Keys(d) == {d[i][1] : i \in 1..Len(d)}

HasKey(d, k) == k \in Keys(d)

Get(d, k) == d[CHOOSE i \in 1..Len(d) : d[i][1] = k][2]

\* d[k] = v: an existing key keeps its position.
Put(d, k, v) ==
    IF HasKey(d, k)
    THEN [i \in 1..Len(d) |-> IF d[i][1] = k THEN <<k, v>> ELSE d[i]]
    ELSE Append(d, <<k, v>>)

\* del d[k]
Del(d, k) == SelectSeq(d, LAMBDA e : e[1] # k)

(***************************************************************************)
(* Vector store (storage.py, InMemoryVectorStorage).                       *)
(* A store is [chunks |-> dict id -> chunk, embeddings |-> dict id -> vec]. *)
(***************************************************************************)
EmptyStore == [chunks |-> <<>>, embeddings |-> <<>>]

\* sum(x * y for x, y in zip(a, b))
RECURSIVE Dot(_, _)
Dot(a, b) ==
    IF a = <<>> \/ b = <<>> THEN 0
    ELSE Head(a) * Head(b) + Dot(Tail(a), Tail(b))

\* InMemoryVectorStorage._cosine_similarity.  The score dot / (|a| * |b|)
\* is kept exactly, as the fraction num / den of its signed square
\* sign(dot) * dot^2 / (|a|^2 * |b|^2), which orders scores as the cosine
\* does; a zero norm gives the score 0.
_cosine_similarity(a, b) ==
    LET dot_product == Dot(a, b)
        norm_a2 == Dot(a, a)
        norm_b2 == Dot(b, b)
    IN IF norm_a2 = 0 \/ norm_b2 = 0 THEN [num |-> 0, den |-> 1]
       ELSE [num |-> (IF dot_product < 0 THEN -1 ELSE 1) * dot_product * dot_product,
             den |-> norm_a2 * norm_b2]

\* s < t and s = t on scores
ScoreLess(s, t) == s.num * t.den < t.num * s.den

ScoreEq(s, t) == s.num * t.den = t.num * s.den

\* score < min_score for a threshold min_score = m.num / m.den >= 0
BelowMin(s, m) ==
    IF s.num < 0 THEN TRUE
    ELSE s.num * m.den * m.den < m.num * m.num * s.den

\* InMemoryVectorStorage.add: the new store, and whether ValueError was
\* raised.
add(st, chunk) ==
    IF IsNone(chunk.embedding)
    THEN [store |-> st, raised |-> TRUE]
    ELSE [store |-> [chunks |-> Put(st.chunks, chunk.id, chunk),
                     embeddings |-> Put(st.embeddings, chunk.id, chunk.embedding[1])],
          raised |-> FALSE]

\* InMemoryVectorStorage.add_batch: add one by one; an exception of add
\* ends the loop and leaves what was added before it.
RECURSIVE add_batch(_, _)
add_batch(st, chunks) ==
    IF chunks = <<>> THEN [store |-> st, raised |-> FALSE]
    ELSE LET r == add(st, Head(chunks)) IN
         IF r.raised THEN r ELSE add_batch(r.store, Tail(chunks))

\* A filters dict with no key.
NoFilters == [file_path |-> None, language |-> None, chunk_type |-> None]

\* PassesFilters with the chunk_type test left out.
PassesFilters_IgnoringChunkType(chunk, filters) ==
    \/ IsNone(filters)
    \/ /\ IsNone(filters[1].file_path)
          \/ StartsWith(chunk.file_path, filters[1].file_path[1])
       /\ IsNone(filters[1].language)
          \/ chunk.language = filters[1].language[1]

\* The filter tests of search.  filters is None (no dict, or an empty one)
\* or <<f>> with f.file_path, f.language, f.chunk_type each None (key
\* absent) or <<value>>.

PassesFilters(chunk, filters) ==
    \/ IsNone(filters)
    \/ filters[1] = NoFilters
    \/ /\ IsNone(filters[1].file_path)
          \/ StartsWith(chunk.file_path, filters[1].file_path[1])
       /\ IsNone(filters[1].language)
          \/ chunk.language = filters[1].language[1]
       /\ IsNone(filters[1].chunk_type)
          \/ chunk.chunk_type = filters[1].chunk_type[1]

\* The scoring loop of search over embeddings[i..].
RECURSIVE ScoreLoop(_, _, _, _)
ScoreLoop(st, query_embedding, filters, i) ==
    IF i > Len(st.embeddings) THEN <<>>
    ELSE LET chunk_id == st.embeddings[i][1]
             chunk == Get(st.chunks, chunk_id)
         IN (IF PassesFilters(chunk, filters)
             THEN <<[chunk_id |-> chunk_id,
                     score |-> _cosine_similarity(query_embedding, st.embeddings[i][2])]>>
             ELSE <<>>)
            \o ScoreLoop(st, query_embedding, filters, i + 1)

\* scores.sort(key=score, reverse=True): stable, so equal scores keep the
\* order in which they were scored.
RECURSIVE InsertByScore(_, _)
InsertByScore(sorted, e) ==
    IF sorted = <<>> THEN <<e>>
    ELSE IF ScoreLess(Head(sorted).score, e.score) THEN <<e>> \o sorted
    ELSE <<Head(sorted)>> \o InsertByScore(Tail(sorted), e)

RECURSIVE SortByScore(_)
SortByScore(scores) ==
    IF scores = <<>> THEN <<>>
    ELSE InsertByScore(SortByScore(SubSeq(scores, 1, Len(scores) - 1)),
                       scores[Len(scores)])

\* search with the sort left out: results in the order they were scored.
search_Unsorted(st, query_embedding, top_k, filters) ==
    IF st.embeddings = <<>> THEN <<>>
    ELSE LET scores == ScoreLoop(st, query_embedding, filters, 1)
             top == Slice(scores, 0, top_k)
         IN [i \in 1..Len(top) |->
               [chunk |-> Get(st.chunks, top[i].chunk_id),
                score |-> top[i].score,
                rank |-> i - 1]]

\* InMemoryVectorStorage.search: the SearchResults (chunk, score, rank).
search(st, query_embedding, top_k, filters) ==
    IF st.embeddings = <<>> THEN <<>>
    ELSE LET scores == SortByScore(ScoreLoop(st, query_embedding, filters, 1))
             top == Slice(scores, 0, top_k)
         IN [i \in 1..Len(top) |->
               [chunk |-> Get(st.chunks, top[i].chunk_id),
                score |-> top[i].score,
                rank |-> i - 1]]

\* delete that reports a stored chunk deleted and removes nothing.
delete_RemovingNothing(st, chunk_id) ==
    [store |-> st, result |-> HasKey(st.chunks, chunk_id), raised |-> FALSE]

\* InMemoryVectorStorage.delete: the new store, the value returned, and
\* whether KeyError was raised (del of an id that has no vector, after the
\* chunk was removed).
delete(st, chunk_id) ==
    IF ~HasKey(st.chunks, chunk_id)
    THEN [store |-> st, result |-> FALSE, raised |-> FALSE]
    ELSE IF ~HasKey(st.embeddings, chunk_id)
    THEN [store |-> [st EXCEPT !.chunks = Del(@, chunk_id)],
          result |-> FALSE, raised |-> TRUE]
    ELSE [store |-> [chunks |-> Del(st.chunks, chunk_id),
                     embeddings |-> Del(st.embeddings, chunk_id)],
          result |-> TRUE, raised |-> FALSE]

\* InMemoryVectorStorage.clear
clear(st) == EmptyStore

\* InMemoryVectorStorage.count
count(st) == Len(st.chunks)

\* InMemoryVectorStorage.get_chunks_by_file
get_chunks_by_file(st, file_path) ==
    LET hits == SelectSeq(st.chunks, LAMBDA e : e[2].file_path = file_path)
    IN [i \in 1..Len(hits) |-> hits[i][2]]

(***************************************************************************)
(* Indexer (indexer.py, CodebaseIndexer).                                  *)
(* An indexer is [file_hashes, stats, store]; fs is the file system, a     *)
(* function from path to None (no such file) or <<content>>.               *)
(***************************************************************************)
\* IndexConfig of the modelled indexer: small sizes, so that short files
\* split into several chunks.
config ==
    [max_chunk_size |-> 8,
     min_chunk_size |-> 2,
     overlap |-> 0,
     respect_boundaries |-> TRUE,
     extensions |-> {<<".", "p", "y">>, <<".", "m", "d">>},
     ignore_patterns |-> {<<"v", "e", "n", "v">>, <<"d", "i", "s", "t">>},
     batch_size |-> 1]

\* IndexStats() as constructed; index_time_ms and last_updated are clock
\* readings and are not modelled.
NewStats ==
    [total_files |-> 0, total_chunks |-> 0, total_characters |-> 0,
     languages |-> <<>>]

\* CodebaseIndexer.__init__ with the default in-memory storage.
NewIndexer ==
    [file_hashes |-> <<>>, stats |-> NewStats, store |-> EmptyStore]

\* CodebaseIndexer._compute_file_hash: sha256 of the bytes, modelled as
\* injective: the tagged content.
_compute_file_hash(content) == <<"sha256", content>>

\* The embedding provider is a pure function of the text (an external
\* model); this one gives a vector of two integers.
EmbedOf(text) == <<Len(text), 1 + CountNewlines(text)>>

\* What embed_batch(texts) returns to index_file under an outcome
\* [kind, k]:
\*   "ok"     one vector per text;
\*   "short"  only the first k texts have a vector, the rest are None (a
\*            provider answer shorter than the request);
\*   "raise"  the call raises and returns nothing.
EmbedBatchResult(texts, outcome) ==
    [i \in 1..Len(texts) |->
        IF outcome.kind = "ok" \/ i <= outcome.k
        THEN Some(EmbedOf(texts[i])) ELSE None]

\* self._stats.languages[lang] = self._stats.languages.get(lang, 0) + 1
\* for every chunk
RECURSIVE CountLanguages(_, _)
CountLanguages(languages, chunks) ==
    IF chunks = <<>> THEN languages
    ELSE LET lang == IF IsNone(Head(chunks).language) THEN Unknown
                     ELSE Head(chunks).language
             n == IF HasKey(languages, lang) THEN Get(languages, lang) ELSE 0
         IN CountLanguages(Put(languages, lang, n + 1), Tail(chunks))

\* sum(len(c.content) for c in chunks)
RECURSIVE SumChars(_)
SumChars(chunks) ==
    IF chunks = <<>> THEN 0
    ELSE Len(Head(chunks).content) + SumChars(Tail(chunks))

\* The "update stats" block with = in place of +=.
UpdateStats_Overwriting(stats, chunks) ==
    [stats EXCEPT !.total_chunks = Len(chunks),
                  !.total_characters = SumChars(chunks),
                  !.languages = CountLanguages(<<>>, chunks)]

\* The "update stats" block of index_file.
UpdateStats(stats, chunks) ==
    [stats EXCEPT !.total_chunks = @ + Len(chunks),
                  !.total_characters = @ + SumChars(chunks),
                  !.languages = CountLanguages(@, chunks)]

\* The files of the indexed tree, in the order rglob yields them.
PathA == <<"a", ".", "p", "y">>

PathB == <<"b", ".", "m", "d">>

PathOrder == <<PathA, PathB>>

Paths == {PathOrder[i] : i \in 1..Len(PathOrder)}

\* A third file, for directories of up to three files.
PathC == <<"c", ".", "p", "y">>

BatchOrder == <<PathA, PathB, PathC>>

BatchPaths == {BatchOrder[i] : i \in 1..Len(BatchOrder)}

\* File contents: "x=1\ny=2\nz=3", the same with its last line changed,
\* and "def f\n p".
Text1 == <<"x", "=", "1", "\n", "y", "=", "2", "\n", "z", "=", "3">>

Text2 == <<"x", "=", "1", "\n", "y", "=", "2", "\n", "w", "=", "4">>

Text3 == <<"d", "e", "f", " ", "f", "\n", " ", "p">>

Texts == {Text1, Text2, Text3}

\* chunk_file of the indexer's chunker on every path and content of the
\* model, computed once.
ChunkTable ==
    [path \in BatchPaths |->
        [content \in {None} \cup {Some(t) : t \in Texts} |->
            chunk_file(config, path, content)]]

\* self.chunker.chunk_file(path_str, content) for the indexer's chunker, with
\* the file read when no content is passed (None: there is no such file).
self_chunker_chunk_file(path, content) == ChunkTable[path][content]

\* The change check that records the fingerprint and never skips.
CheckChanged_NeverSkipping(file_hashes, fs, path, force) ==
    IF ~force /\ ~IsNone(fs[path])
    THEN [skip |-> FALSE,
          file_hashes |-> Put(file_hashes, path, _compute_file_hash(fs[path][1]))]
    ELSE [skip |-> FALSE, file_hashes |-> file_hashes]

\* The change check of index_file: the fingerprint table after it, and
\* whether the file is skipped.
CheckChanged(file_hashes, fs, path, force) ==
    IF ~force /\ ~IsNone(fs[path])
    THEN LET current_hash == _compute_file_hash(fs[path][1]) IN
         IF HasKey(file_hashes, path) /\ Get(file_hashes, path) = current_hash
         THEN [skip |-> TRUE, file_hashes |-> file_hashes]
         ELSE [skip |-> FALSE, file_hashes |-> Put(file_hashes, path, current_hash)]
    ELSE [skip |-> FALSE, file_hashes |-> file_hashes]

\* index_file from the change check on, given the chunks chunk_file
\* returns for the file: the check, then (unless the file is skipped)
\* embedding, storing and counting the chunks.
IndexChunks(ix, fs, path, force, outcome, chunks) ==
    LET chk == CheckChanged(ix.file_hashes, fs, path, force)
        ix1 == [ix EXCEPT !.file_hashes = chk.file_hashes]
        texts == [i \in 1..Len(chunks) |-> chunks[i].content]
        embeddings == EmbedBatchResult(texts, outcome)
        embedded == [i \in 1..Len(chunks) |->
                        [chunks[i] EXCEPT !.embedding = embeddings[i]]]
        stored == add_batch(ix1.store, embedded)
    IN IF chk.skip
       THEN [ix |-> ix, result |-> <<>>, raised |-> FALSE, embedded |-> None]
       ELSE IF chunks = <<>>
       THEN [ix |-> ix1, result |-> <<>>, raised |-> FALSE, embedded |-> None]
       ELSE IF outcome.kind = "raise"
       THEN [ix |-> ix1, result |-> <<>>, raised |-> TRUE, embedded |-> Some(texts)]
       ELSE IF stored.raised
       THEN [ix |-> [ix1 EXCEPT !.store = stored.store],
             result |-> <<>>, raised |-> TRUE, embedded |-> Some(texts)]
       ELSE [ix |-> [ix1 EXCEPT !.store = stored.store,
                                !.stats = UpdateStats(@, embedded)],
             result |-> embedded, raised |-> FALSE, embedded |-> Some(texts)]

\* CodebaseIndexer.index_file(path, content, force) with the provider
\* answering by outcome.  Gives the indexer after the call, the chunks
\* returned, whether the call raised, and the texts passed to embed_batch
\* (None if it was not called).
index_file(ix, fs, path, content, force, outcome) ==
    IndexChunks(ix, fs, path, force, outcome,
                self_chunker_chunk_file(path, IF IsNone(content) THEN fs[path]
                                              ELSE content))

\* pattern in path_str
Contains(s, pattern) ==
    \E i \in 1..(Len(s) + 1) : LitAt(s, i, pattern)

\* The file discovery of index_directory: the files of the tree, in the
\* order rglob yields them, that have an included extension and no ignored
\* substring in their path.
Discover(fs, order) ==
    SelectSeq(order,
              LAMBDA path : /\ ~IsNone(fs[path])
                            /\ Suffix(path) \in config.extensions
                            /\ \A pattern \in config.ignore_patterns :
                                  ~Contains(path, pattern))

\* One turn of the batch loop that calls back only after a full batch.
DirStep_SkippingPartialBatch(acc, files, k, progress_callback, r, batch_size) ==
    [ix |-> r.ix,
     events |->
        IF k % batch_size = 0 /\ progress_callback
        THEN acc.events \o
             <<[kind |-> "index_file", path |-> files[k], raised |-> r.raised],
               [kind |-> "progress", num |-> k, den |-> Len(files)]>>
        ELSE Append(acc.events,
                    [kind |-> "index_file", path |-> files[k],
                     raised |-> r.raised]),
     embedded |-> IF IsNone(r.embedded) THEN acc.embedded
                  ELSE Append(acc.embedded, <<files[k], r.embedded[1]>>)]

\* One turn of the batch loop of index_directory, file k, r being what
\* index_file gave for it.  An exception of index_file is swallowed: the
\* indexer is left as index_file left it.  acc = [ix, events, embedded]:
\* events lists the index_file calls and the progress callbacks in order;
\* embedded lists <<path, texts>> for every embed_batch call.
DirStep(acc, files, k, progress_callback, r, batch_size) ==
    LET i == ((k - 1) \div batch_size) * batch_size
        last_of_batch == k = Len(files) \/ k % batch_size = 0
        ev1 == Append(acc.events,
                      [kind |-> "index_file", path |-> files[k],
                       raised |-> r.raised])
        ev2 == IF last_of_batch /\ progress_callback
               THEN Append(ev1, [kind |-> "progress",
                                 num |-> Min(i + batch_size, Len(files)),
                                 den |-> Len(files)])
               ELSE ev1
    IN [ix |-> r.ix,
        events |-> ev2,
        embedded |-> IF IsNone(r.embedded) THEN acc.embedded
                     ELSE Append(acc.embedded, <<files[k], r.embedded[1]>>)]

\* The batch loop that ends at the first file for which index_file raises.
RECURSIVE DirLoop_AbortingOnFailure(_, _, _, _, _, _, _, _)
DirLoop_AbortingOnFailure(acc, fs, files, k, force, outcomes, progress_callback, batch_size) ==
    IF k > Len(files) THEN acc
    ELSE IF index_file(acc.ix, fs, files[k], None, force,
                       outcomes[files[k]]).raised
    THEN acc
    ELSE DirLoop_AbortingOnFailure(
             DirStep(acc, files, k, progress_callback,
                     index_file(acc.ix, fs, files[k], None, force,
                                outcomes[files[k]]),
                     batch_size),
             fs, files, k + 1, force, outcomes, progress_callback,
             batch_size)

\* The batch loop of index_directory from file k on.
RECURSIVE DirLoop(_, _, _, _, _, _, _, _)
DirLoop(acc, fs, files, k, force, outcomes, progress_callback, batch_size) ==
    IF k > Len(files) THEN acc
    ELSE DirLoop(DirStep(acc, files, k, progress_callback,
                         index_file(acc.ix, fs, files[k], None, force,
                                    outcomes[files[k]]),
                         batch_size),
                 fs, files, k + 1, force, outcomes, progress_callback,
                 batch_size)

\* What index_directory gives once the batch loop has ended with acc: the
\* indexer, the statistics returned, the files found, the events and the
\* embed_batch calls.
DirDone(files, acc) ==
    [ix |-> acc.ix, result |-> acc.ix.stats, files |-> files,
     events |-> acc.events, embedded |-> acc.embedded]

\* index_directory once the files are found: total_files is set, then the
\* batch loop runs.
IndexFiles(ix, fs, files, force, outcomes, progress_callback, batch_size) ==
    DirDone(files,
            DirLoop([ix |-> [ix EXCEPT !.stats.total_files = Len(files)],
                     events |-> <<>>, embedded |-> <<>>],
                    fs, files, 1, force, outcomes, progress_callback,
                    batch_size))

\* index_directory that indexes every file with force=True.
index_directory_ForcingAll(ix, fs, order, force, outcomes, progress_callback) ==
    IndexFiles(ix, fs, Discover(fs, order), TRUE, outcomes, progress_callback,
               config.batch_size)

\* CodebaseIndexer.index_directory on an existing directory.
index_directory(ix, fs, order, force, outcomes, progress_callback) ==
    IndexFiles(ix, fs, Discover(fs, order), force, outcomes, progress_callback,
               config.batch_size)

\* CodebaseIndexer.index_directory of an indexer whose configuration has
\* the given batch_size, the other settings being those of config.
index_directory_batched(ix, fs, order, outcomes, progress_callback, batch_size) ==
    IndexFiles(ix, fs, Discover(fs, order), FALSE, outcomes, progress_callback,
               batch_size)

\* The delete loop of remove_file.
RECURSIVE DeleteAll(_, _)
DeleteAll(st, chunks) ==
    IF chunks = <<>> THEN [store |-> st, raised |-> FALSE]
    ELSE LET r == delete(st, Head(chunks).id) IN
         IF r.raised THEN [store |-> r.store, raised |-> TRUE]
         ELSE DeleteAll(r.store, Tail(chunks))

\* CodebaseIndexer.remove_file with the in-memory storage (which has
\* get_chunks_by_file).
remove_file(ix, path) ==
    LET chunks == get_chunks_by_file(ix.store, path)
        r == DeleteAll(ix.store, chunks)
    IN [ix |-> [ix EXCEPT !.store = r.store],
        result |-> Len(chunks), raised |-> r.raised]

\* CodebaseIndexer.clear
indexer_clear(ix) ==
    [file_hashes |-> <<>>, stats |-> NewStats, store |-> clear(ix.store)]

\* CodebaseIndexer.get_stats
get_stats(ix) ==
    [ix EXCEPT !.stats.total_chunks = count(ix.store)]

\* CodebaseIndexer.search once the query is embedded: an empty file_path
\* or language is no filter.
indexer_search(ix, query, top_k, file_path, language) ==
    LET f == [file_path |-> IF IsNone(file_path) \/ file_path[1] = <<>> THEN None
                            ELSE file_path,
              language |-> IF IsNone(language) \/ language[1] = <<>> THEN None
                           ELSE language,
              chunk_type |-> None]
    IN search(ix.store, EmbedOf(query), top_k,
              IF f = NoFilters THEN None ELSE Some(f))

(***************************************************************************)
(* Search facade (search.py, SemanticSearch).                              *)
(***************************************************************************)
\* The code fence of a block: three backquotes.  A TLA+ string cannot hold
\* a backquote, so the apostrophe stands for it.
Fence == <<"'", "'", "'">>

\* The formatted block of one chunk in get_context: the header
\* "# path:start-end", then the fenced content, the opening fence followed
\* by the language (or nothing).
FormatBlock(chunk) ==
    <<"#", " ">> \o chunk.file_path \o <<":">> \o Str(chunk.start_line)
    \o <<"-">> \o Str(chunk.end_line)
    \o <<"\n">> \o Fence \o chunk.language
    \o <<"\n">> \o chunk.content \o <<"\n">> \o Fence

\* The packing loop of get_context over results[i..]:
\* acc = [context_parts, total_chars].
RECURSIVE PackLoop(_, _, _, _, _)
PackLoop(results, i, min_score, max_chars, acc) ==
    IF i > Len(results) THEN acc
    ELSE IF BelowMin(results[i].score, min_score)
    THEN PackLoop(results, i + 1, min_score, max_chars, acc)
    ELSE LET chunk_content == FormatBlock(results[i].chunk) IN
         IF acc.total_chars + Len(chunk_content) > max_chars THEN acc
         ELSE PackLoop(results, i + 1, min_score, max_chars,
                       [context_parts |-> Append(acc.context_parts, chunk_content),
                        total_chars |-> acc.total_chars + Len(chunk_content)])

\* "\n\n".join(parts)
RECURSIVE JoinBlocks(_)
JoinBlocks(parts) ==
    IF parts = <<>> THEN <<>>
    ELSE IF Len(parts) = 1 THEN parts[1]
    ELSE parts[1] \o <<"\n", "\n">> \o JoinBlocks(Tail(parts))

\* The over-fetch of get_context: top_k=20.
ContextTopK == 20

\* SemanticSearch.get_context
get_context(ix, query, max_tokens, min_score) ==
    LET max_chars == max_tokens * 4
        results == indexer_search(ix, query, ContextTopK, None, None)
        acc == PackLoop(results, 1, min_score, max_chars,
                        [context_parts |-> <<>>, total_chars |-> 0])
    IN JoinBlocks(acc.context_parts)

(***************************************************************************)
(* The state machine.                                                      *)
(***************************************************************************)
\* The contents a file takes in a behaviour: a.py is rewritten, b.md is
\* created and deleted.
FileStates(path) ==
    IF path = PathA THEN {Some(Text1), Some(Text2)} ELSE {None, Some(Text3)}

\* What the embedding provider does in one embed_batch call.
Outcomes ==
    {[kind |-> "ok", k |-> 0], [kind |-> "raise", k |-> 0],
     [kind |-> "short", k |-> 1]}

VARIABLES
    fs,        \* the file system: path -> None or <<content>>
    indexer,   \* the CodebaseIndexer: [file_hashes, stats, store]
    ret,       \* the last call and what it returned
    nops,      \* number of calls made so far
    seen,      \* path -> content the file had at the last index_file
               \* without force (None: no such call since construction or clear)
    snap,      \* the file system at the last index_directory without
               \* force, if no index_file without force or clear came since
    storage,   \* an InMemoryVectorStorage used on its own
    sret,      \* the last call on storage and what it returned
    sops,      \* number of calls made on storage so far
    deleted,   \* ids whose delete returned True, not added again since
    findexer,  \* a CodebaseIndexer on a FileVectorStorage:
               \* [file_hashes, stats, store]
    disk,      \* the index directory of that storage: [index, embeddings]
    fret,      \* the last call on findexer or its storage and its result
    fops,      \* number of calls made on findexer so far
    cached,    \* a CachedEmbeddings with a cache path: [cache]
    cachefile, \* the file at its cache path
    remote,    \* an OpenAIEmbeddings: [cache]
    backend,   \* what lies under them: [calls], the number of calls made
    eret,      \* the last call on cached or remote and its result
    eops,      \* number of calls made on the providers so far
    local      \* a LocalEmbeddings: [model, dimensions], and built, the
               \* number of models constructed so far

ixvars == <<fs, indexer, ret, nops, seen, snap>>

stvars == <<storage, sret, sops, deleted>>

fvars == <<findexer, disk, fret, fops>>

evars == <<cached, cachefile, remote, backend, eret, eops, local>>

\* What the calls on the indexer leave alone.
notix == <<stvars, fvars, evars>>

\* What the calls on the standalone storage leave alone.
notst == <<ixvars, fvars, evars>>

\* What the calls on the file-backed indexer leave alone.
notf == <<ixvars, stvars, evars>>

\* What the calls on the embedding providers leave alone.
note == <<ixvars, stvars, fvars>>

vars == <<ixvars, stvars, fvars, evars>>

\* The standalone storage before any call on it.
StorageIdle ==
    /\ storage = EmptyStore
    /\ sret = [op |-> "init"]
    /\ sops = 0
    /\ deleted = {}

\* The file-backed indexer before its construction: no file in its index
\* directory.
FileIdle ==
    /\ findexer = NewIndexer
    /\ disk = [index |-> None, embeddings |-> None]
    /\ fret = [op |-> "init"]
    /\ fops = 0

\* The embedding providers before any call on them: nothing cached, no
\* cache file.
CacheIdle ==
    /\ cached = [cache |-> <<>>]
    /\ cachefile = None
    /\ remote = [cache |-> <<>>]
    /\ backend = [calls |-> 0]
    /\ eret = [op |-> "init"]
    /\ eops = 0
    /\ local = [model |-> None, dimensions |-> None, built |-> 0]

Init ==
    /\ fs \in [Paths -> {None} \cup {Some(Text1), Some(Text2), Some(Text3)}]
    /\ \A p \in Paths : fs[p] \in FileStates(p)
    /\ indexer = NewIndexer
    /\ ret = [op |-> "init"]
    /\ nops = 0
    /\ seen = [p \in Paths |-> None]
    /\ snap = None
    /\ StorageIdle
    /\ FileIdle
    /\ CacheIdle

\* The environment rewrites, creates or deletes a file.
WriteFile(path, content) ==
    /\ fs[path] # content
    /\ fs' = [fs EXCEPT ![path] = content]
    /\ UNCHANGED <<indexer, ret, nops, seen, snap>>
    /\ UNCHANGED notix

\* The indexer and the record of the call once index_file has given r.
IndexFileReturned(path, content, force, r) ==
    /\ indexer' = r.ix
    /\ ret' = [op |-> "index_file", path |-> path, force |-> force,
               content |-> content,
               result |-> [i \in 1..Len(r.result) |-> r.result[i].id],
               raised |-> r.raised, embedded |-> r.embedded,
               repeat |-> ~IsNone(fs[path]) /\ seen[path] = fs[path]]

\* await indexer.index_file(path, content, force)
IndexFile(path, content, force, outcome) ==
    /\ nops < MaxOps
    /\ IndexFileReturned(path, content, force,
                         index_file(indexer, fs, path, content, force, outcome))
    /\ nops' = nops + 1
    /\ seen' = IF ~force /\ ~IsNone(fs[path])
               THEN [seen EXCEPT ![path] = fs[path]] ELSE seen
    /\ snap' = IF ~force THEN None ELSE snap
    /\ UNCHANGED <<fs, notix>>

\* The indexer and the record of the call once index_directory has given r.
IndexDirectoryReturned(force, r) ==
    /\ indexer' = r.ix
    /\ ret' = [op |-> "index_directory", force |-> force,
               files |-> r.files, events |-> r.events,
               embedded |-> r.embedded, result |-> r.result,
               changed |-> IF IsNone(snap) \/ force THEN None
                           ELSE Some({p \in Paths : snap[1][p] # fs[p]})]
    /\ seen' = IF force THEN seen
               ELSE [p \in Paths |->
                       IF \E i \in 1..Len(r.files) : r.files[i] = p
                       THEN fs[p] ELSE seen[p]]

\* await indexer.index_directory(directory, force, progress_callback), and
\* refresh(directory, progress_callback), which is the call without force.
IndexDirectory(force, outcomes, progress_callback) ==
    /\ nops < MaxOps
    /\ IndexDirectoryReturned(force,
                              index_directory(indexer, fs, PathOrder, force,
                                              outcomes, progress_callback))
    /\ nops' = nops + 1
    /\ snap' = IF force THEN snap ELSE Some(fs)
    /\ UNCHANGED <<fs, notix>>

\* await indexer.remove_file(path)
RemoveFile(path) ==
    /\ nops < MaxOps
    /\ LET r == remove_file(indexer, path) IN
       /\ indexer' = r.ix
       /\ ret' = [op |-> "remove_file", path |-> path, result |-> r.result,
                  raised |-> r.raised]
    /\ nops' = nops + 1
    /\ UNCHANGED <<fs, seen, snap, notix>>

\* await indexer.clear()
Clear ==
    /\ nops < MaxOps
    /\ indexer' = indexer_clear(indexer)
    /\ ret' = [op |-> "clear"]
    /\ nops' = nops + 1
    /\ seen' = [p \in Paths |-> None]
    /\ snap' = None
    /\ UNCHANGED <<fs, notix>>

\* await indexer.get_stats()
GetStats ==
    /\ nops < MaxOps
    /\ indexer' = get_stats(indexer)
    /\ ret' = [op |-> "get_stats", result |-> indexer'.stats]
    /\ nops' = nops + 1
    /\ UNCHANGED <<fs, seen, snap, notix>>

\* Queries of the search facade and its budgets.
Queries == {<<"x", "\n", "y">>}

MaxTokensSet == {8, 16}

\* min_score thresholds: 0 and 1/2
MinScores == {[num |-> 0, den |-> 1], [num |-> 1, den |-> 2]}

\* await SemanticSearch(indexer).get_context(query, max_tokens, min_score)
GetContext(query, max_tokens, min_score) ==
    /\ nops < MaxOps
    /\ ret' = [op |-> "get_context", query |-> query, max_tokens |-> max_tokens,
               min_score |-> min_score,
               result |-> get_context(indexer, query, max_tokens, min_score)]
    /\ nops' = nops + 1
    /\ UNCHANGED <<fs, indexer, seen, snap, notix>>

Next ==
    \/ \E path \in Paths : \E content \in FileStates(path) :
          WriteFile(path, content)
    \/ \E path \in Paths, content \in {None, Some(Text3)}, force \in BOOLEAN,
          outcome \in Outcomes :
          IndexFile(path, content, force, outcome)
    \/ \E force \in BOOLEAN, outcomes \in [Paths -> Outcomes] :
          IndexDirectory(force, outcomes, TRUE)
    \/ \E path \in Paths : RemoveFile(path)
    \/ Clear
    \/ GetStats
    \/ \E query \in Queries, max_tokens \in MaxTokensSet, min_score \in MinScores :
          GetContext(query, max_tokens, min_score)

Spec == Init /\ [][Next]_vars

(***************************************************************************)
(* The state machine of an InMemoryVectorStorage used on its own.          *)
(***************************************************************************)
\* Number of calls made on the storage in a behaviour.
MaxStoreOps == 4

\* A chunk as a caller of the storage builds it.
PoolChunk(id, file_path, language, chunk_type, embedding) ==
    [id |-> id, content |-> <<"x">>, file_path |-> file_path,
     start_line |-> 1, end_line |-> 1, chunk_type |-> chunk_type,
     language |-> language, embedding |-> embedding]

DirS == <<"s", "/">>

DirT == <<"t", "/">>

\* The chunks handed to add: two with the same vector, one of another
\* language and directory, one with no language and a vector opposed to the
\* first, one with a zero vector, and one with no embedding.
ChunkPool ==
    {PoolChunk("k1", DirS \o PathA, Python, "function", Some(<<1, 0>>)),
     PoolChunk("k2", DirS \o PathB, Python, "block", Some(<<1, 0>>)),
     PoolChunk("k3", DirT \o PathB, Markdown, "block", Some(<<0, 1>>)),
     PoolChunk("k4", DirS \o PathA, None, "function", Some(<<-1, 1>>)),
     PoolChunk("k5", DirT \o PathA, Python, "class", Some(<<0, 0>>)),
     PoolChunk("k6", DirT \o PathA, Python, "block", None)}

ChunkIds == {c.id : c \in ChunkPool}

\* The batches handed to add_batch.
Batches ==
    {<<a, b>> : a \in {c \in ChunkPool : c.id \in {"k1", "k3"}},
                b \in {c \in ChunkPool : c.id \in {"k2", "k5", "k6"}}}

QueryVectors == {<<1, 0>>, <<1, 1>>, <<0, 0>>}

TopKs == {0, 1, 6}

\* The filters dicts passed to search: none, the empty dict, and dicts of
\* one, two or three keys.
FilterSet ==
    {None,
     Some(NoFilters),
     Some([NoFilters EXCEPT !.file_path = Some(DirS)]),
     Some([NoFilters EXCEPT !.language = Some(Python)]),
     Some([NoFilters EXCEPT !.chunk_type = Some("function")]),
     Some([NoFilters EXCEPT !.language = Some(Markdown),
                            !.chunk_type = Some("block")]),
     Some([file_path |-> Some(DirS \o PathA), language |-> Some(Python),
           chunk_type |-> Some("function")]),
     Some([file_path |-> Some(DirT), language |-> Some(Python),
           chunk_type |-> Some("function")])}

InitStorage ==
    /\ fs = [p \in Paths |-> None]
    /\ indexer = NewIndexer
    /\ ret = [op |-> "init"]
    /\ nops = 0
    /\ seen = [p \in Paths |-> None]
    /\ snap = None
    /\ StorageIdle
    /\ FileIdle
    /\ CacheIdle

\* await storage.add(chunk)
Add(chunk) ==
    /\ sops < MaxStoreOps
    /\ LET r == add(storage, chunk) IN
       /\ storage' = r.store
       /\ sret' = [op |-> "add", id |-> chunk.id, raised |-> r.raised]
       /\ deleted' = IF r.raised THEN deleted ELSE deleted \ {chunk.id}
    /\ sops' = sops + 1
    /\ UNCHANGED notst

\* await storage.add_batch(chunks)
AddBatch(chunks) ==
    /\ sops < MaxStoreOps
    /\ LET r == add_batch(storage, chunks) IN
       /\ storage' = r.store
       /\ sret' = [op |-> "add_batch", raised |-> r.raised]
       /\ deleted' = deleted \ {chunks[i].id : i \in
                         {j \in 1..Len(chunks) :
                             \A k \in 1..j : ~IsNone(chunks[k].embedding)}}
    /\ sops' = sops + 1
    /\ UNCHANGED notst

\* await storage.delete(chunk_id)
Delete(chunk_id) ==
    /\ sops < MaxStoreOps
    /\ LET r == delete(storage, chunk_id) IN
       /\ storage' = r.store
       /\ sret' = [op |-> "delete", id |-> chunk_id, result |-> r.result,
                   raised |-> r.raised]
       /\ deleted' = IF r.result THEN deleted \cup {chunk_id} ELSE deleted
    /\ sops' = sops + 1
    /\ UNCHANGED notst

\* await storage.clear()
ClearStorage ==
    /\ sops < MaxStoreOps
    /\ storage' = clear(storage)
    /\ sret' = [op |-> "clear"]
    /\ sops' = sops + 1
    /\ UNCHANGED <<deleted, notst>>

\* await storage.count()
Count ==
    /\ sops < MaxStoreOps
    /\ sret' = [op |-> "count", result |-> count(storage)]
    /\ sops' = sops + 1
    /\ UNCHANGED <<storage, deleted, notst>>

\* await storage.search(query_embedding, top_k, filters)
Search(query_embedding, top_k, filters) ==
    /\ sops < MaxStoreOps
    /\ sret' = [op |-> "search", top_k |-> top_k, filters |-> filters,
                result |-> search(storage, query_embedding, top_k, filters)]
    /\ sops' = sops + 1
    /\ UNCHANGED <<storage, deleted, notst>>

\* The CodeLocation made of a chunk.
CodeLocation(chunk) ==
    [file_path |-> chunk.file_path, start_line |-> chunk.start_line,
     end_line |-> chunk.end_line, content |-> chunk.content,
     language |-> chunk.language]

\* The first chunk of the file whose line range contains the line, as the
\* loop of find_similar finds it: <<>> if there is none.
TargetChunk(st, file_path, line_number) ==
    LET hits == SelectSeq(get_chunks_by_file(st, file_path),
                          LAMBDA c : c.start_line <= line_number
                                     /\ line_number <= c.end_line)
    IN IF hits = <<>> THEN None ELSE Some(hits[1])

\* find_similar that does not skip the source chunk.
find_similar_KeepingSource(st, file_path, line_number, top_k) ==
    LET target == TargetChunk(st, file_path, line_number) IN
    IF IsNone(target) THEN <<>>
    ELSE IF IsNone(target[1].embedding) THEN <<>>
    ELSE IF target[1].embedding[1] = <<>> THEN <<>>
    ELSE LET results == search(st, target[1].embedding[1], top_k + 1, None)
         IN Slice([i \in 1..Len(results) |-> CodeLocation(results[i].chunk)],
                  0, top_k)

\* SemanticSearch.find_similar over an indexer whose storage is st (an
\* InMemoryVectorStorage, which has get_chunks_by_file).
find_similar(st, file_path, line_number, top_k) ==
    LET target == TargetChunk(st, file_path, line_number) IN
    IF IsNone(target) THEN <<>>
    ELSE IF IsNone(target[1].embedding) THEN <<>>
    ELSE IF target[1].embedding[1] = <<>> THEN <<>>
    ELSE LET results == SelectSeq(
                 search(st, target[1].embedding[1], top_k + 1, None),
                 LAMBDA result : result.chunk.id # target[1].id)
         IN Slice([i \in 1..Len(results) |-> CodeLocation(results[i].chunk)],
                  0, top_k)

\* The places asked about: files with one or two stored chunks, a file
\* with none; a line inside the chunks and one outside.
SimilarPaths == {DirS \o PathA, DirS \o PathB, DirT \o PathA, DirT \o PathC}

SimilarLines == {1, 2}

SimilarTopKs == {0, 1, 2, 6}

\* await SemanticSearch(indexer).find_similar(file_path, line_number, top_k)
FindSimilar(file_path, line_number, top_k) ==
    /\ sops < MaxStoreOps
    /\ sret' = [op |-> "find_similar", file_path |-> file_path,
                line_number |-> line_number, top_k |-> top_k,
                result |-> find_similar(storage, file_path, line_number, top_k)]
    /\ sops' = sops + 1
    /\ UNCHANGED <<storage, deleted, notst>>

NextStorage ==
    \/ \E chunk \in ChunkPool : Add(chunk)
    \/ \E chunks \in Batches : AddBatch(chunks)
    \/ \E chunk_id \in ChunkIds : Delete(chunk_id)
    \/ ClearStorage
    \/ Count
    \/ \E query_embedding \in QueryVectors, top_k \in TopKs, filters \in FilterSet :
          Search(query_embedding, top_k, filters)
    \/ \E file_path \in SimilarPaths, line_number \in SimilarLines,
          top_k \in SimilarTopKs :
          FindSimilar(file_path, line_number, top_k)

SpecStorage == InitStorage /\ [][NextStorage]_vars

(***************************************************************************)
(* index_directory over directories of zero to three files, with indexers  *)
(* of several batch sizes.                                                 *)
(***************************************************************************)
MaxBatchOps == 1

\* The batch_size of the indexer's configuration.
BatchSizes == {1, 2, 3}

InitBatches ==
    /\ fs \in [BatchPaths -> {None, Some(Text3)}]
    /\ indexer = NewIndexer
    /\ ret = [op |-> "init"]
    /\ nops = 0
    /\ seen = [p \in Paths |-> None]
    /\ snap = None
    /\ StorageIdle
    /\ FileIdle
    /\ CacheIdle

\* index_directory has returned r: the call is recorded with what it was
\* given.
IndexDirectoryBatchedReturned(batch_size, outcomes, progress_callback, r) ==
    /\ indexer' = r.ix
    /\ ret' = [op |-> "index_directory", batch_size |-> batch_size,
               outcomes |-> outcomes,
               progress_callback |-> progress_callback,
               files |-> r.files, events |-> r.events, result |-> r.result]

\* await indexer.index_directory(directory, progress_callback=...) on an
\* indexer configured with batch_size; outcomes tells what the embedding
\* provider does for each file.
IndexDirectoryBatched(batch_size, outcomes, progress_callback) ==
    /\ nops < MaxBatchOps
    /\ IndexDirectoryBatchedReturned(
           batch_size, outcomes, progress_callback,
           index_directory_batched(indexer, fs, BatchOrder, outcomes,
                                   progress_callback, batch_size))
    /\ nops' = nops + 1
    /\ UNCHANGED <<fs, seen, snap, notix>>

NextBatches ==
    \E batch_size \in BatchSizes, outcomes \in [BatchPaths -> Outcomes],
       progress_callback \in BOOLEAN :
        IndexDirectoryBatched(batch_size, outcomes, progress_callback)

SpecBatches == InitBatches /\ [][NextBatches]_vars

(***************************************************************************)
(* FileVectorStorage, and a CodebaseIndexer that uses it.                  *)
(***************************************************************************)
MaxFileOps == 3

\* The values of ChunkType.
ChunkTypeValues ==
    {"file", "module", "class", "function", "method", "docstring", "comment",
     "import", "block"}

\* Chunk.to_dict: the embedding is not part of it.
to_dict(chunk) ==
    [id |-> chunk.id, content |-> chunk.content, file_path |-> chunk.file_path,
     start_line |-> chunk.start_line, end_line |-> chunk.end_line,
     chunk_type |-> chunk.chunk_type, language |-> chunk.language]

\* A file of the index directory: unparsable, or JSON holding an object
\* (data lists its items in order).
Json(data) == [ok |-> TRUE, data |-> data]

Unparsable == [ok |-> FALSE, data |-> <<>>]

\* The loop of _load from item k of index.json on.  ChunkType(...) raises
\* on a value that is no chunk type; the exception ends the loading and
\* what was put into the memory before it stays.
RECURSIVE LoadLoop(_, _, _, _)
LoadLoop(mem, index_data, embeddings_data, k) ==
    IF k > Len(index_data) THEN mem
    ELSE LET chunk_id == index_data[k][1]
             chunk_data == index_data[k][2]
             embedding == IF HasKey(embeddings_data, chunk_id)
                          THEN Some(Get(embeddings_data, chunk_id)) ELSE None
             chunk == [id |-> chunk_id, content |-> chunk_data.content,
                       file_path |-> chunk_data.file_path,
                       start_line |-> chunk_data.start_line,
                       end_line |-> chunk_data.end_line,
                       chunk_type |-> chunk_data.chunk_type,
                       language |-> chunk_data.language,
                       embedding |-> embedding]
         IN IF chunk_data.chunk_type \notin ChunkTypeValues THEN mem
            ELSE LoadLoop(
                    [chunks |-> Put(mem.chunks, chunk_id, chunk),
                     embeddings |->
                        IF ~IsNone(embedding) /\ embedding[1] # <<>>
                        THEN Put(mem.embeddings, chunk_id, embedding[1])
                        ELSE mem.embeddings],
                    index_data, embeddings_data, k + 1)

\* FileVectorStorage._load: the memory of a storage constructed on the
\* directory d.
_load(d) ==
    IF IsNone(d.index) \/ IsNone(d.embeddings) THEN EmptyStore
    ELSE IF ~d.index[1].ok \/ ~d.embeddings[1].ok THEN EmptyStore
    ELSE LoadLoop(EmptyStore, d.index[1].data, d.embeddings[1].data, 1)

\* What writing the two files does: both are written, or the first open
\* raises (nothing is written), or the second does (index.json is new,
\* embeddings.json is old).
IOs == {"ok", "index", "embeddings"}

\* FileVectorStorage._save
_save(mem, d, io) ==
    LET index_data == [k \in 1..Len(mem.chunks) |->
                          <<mem.chunks[k][1], to_dict(mem.chunks[k][2])>>]
        embeddings_data ==
            SelectSeq([k \in 1..Len(mem.chunks) |->
                          <<mem.chunks[k][1],
                            IF HasKey(mem.embeddings, mem.chunks[k][1])
                            THEN Get(mem.embeddings, mem.chunks[k][1])
                            ELSE <<>>>>],
                      LAMBDA item : HasKey(mem.embeddings, item[1]))
    IN IF io = "index" THEN [disk |-> d, raised |-> TRUE]
       ELSE IF io = "embeddings"
       THEN [disk |-> [d EXCEPT !.index = Some(Json(index_data))],
             raised |-> TRUE]
       ELSE [disk |-> [index |-> Some(Json(index_data)),
                       embeddings |-> Some(Json(embeddings_data))],
             raised |-> FALSE]

\* The end of a mutating call of FileVectorStorage on directory d: the call
\* on the memory gave mem and raised or not; _save follows if it did not
\* raise and save is set.
FileCall(mem, raised, save, d, io) ==
    IF raised \/ ~save
    THEN [store |-> mem, disk |-> d, raised |-> raised]
    ELSE [store |-> mem, disk |-> _save(mem, d, io).disk,
          raised |-> _save(mem, d, io).raised]

\* FileVectorStorage.add
file_add(st, d, chunk, io) ==
    FileCall(add(st, chunk).store, add(st, chunk).raised, TRUE, d, io)

\* FileVectorStorage.add_batch
file_add_batch(st, d, chunks, io) ==
    FileCall(add_batch(st, chunks).store, add_batch(st, chunks).raised, TRUE,
             d, io)

\* FileVectorStorage.delete: the files are rewritten only if a chunk was
\* deleted.
file_delete(st, d, chunk_id, io) ==
    FileCall(delete(st, chunk_id).store, delete(st, chunk_id).raised,
             delete(st, chunk_id).result, d, io)

\* FileVectorStorage.clear
file_clear(st, d, io) == FileCall(clear(st), FALSE, TRUE, d, io)

\* index_file of an indexer on a FileVectorStorage, r being what the calls
\* before and on the memory of the storage gave: add_batch saves after the
\* memory has the chunks, and when the save raises the statistics are not
\* updated.
FileIndexed(ix, d, outcome, io, r) ==
    IF IsNone(r.embedded) \/ r.raised
    THEN [ix |-> r.ix, disk |-> d, result |-> r.result, raised |-> r.raised]
    ELSE IF _save(r.ix.store, d, io).raised
    THEN [ix |-> [r.ix EXCEPT !.stats = ix.stats],
          disk |-> _save(r.ix.store, d, io).disk,
          result |-> <<>>, raised |-> TRUE]
    ELSE [ix |-> r.ix, disk |-> _save(r.ix.store, d, io).disk,
          result |-> r.result, raised |-> FALSE]

\* CodebaseIndexer.index_file on a FileVectorStorage.
file_index_file(ix, d, tree, path, outcome, io) ==
    FileIndexed(ix, d, outcome, io,
                index_file(ix, tree, path, None, FALSE, outcome))

\* CodebaseIndexer.remove_file on a FileVectorStorage, which has no
\* get_chunks_by_file.
file_remove_file(ix, path) == [ix |-> ix, result |-> 0]

\* CodebaseIndexer.clear on a FileVectorStorage: the fingerprints and the
\* statistics are reset after the storage's clear has returned.
file_indexer_clear(ix, d, io) ==
    IF file_clear(ix.store, d, io).raised
    THEN [ix |-> [ix EXCEPT !.store = file_clear(ix.store, d, io).store],
          disk |-> file_clear(ix.store, d, io).disk, raised |-> TRUE]
    ELSE [ix |-> [file_hashes |-> <<>>, stats |-> NewStats,
                  store |-> file_clear(ix.store, d, io).store],
          disk |-> file_clear(ix.store, d, io).disk, raised |-> FALSE]

\* The chunks of the model's files, as chunk_file gives them.
FileChunks ==
    {ChunkTable[PathA][Some(Text3)][1], ChunkTable[PathB][Some(Text3)][1],
     ChunkTable[PathB][Some(Text3)][2]}

\* The chunks handed to add: each with its vector, or with none.
FilePool ==
    {[c EXCEPT !.embedding = None] : c \in FileChunks}
    \cup {[c EXCEPT !.embedding = Some(EmbedOf(c.content))] : c \in FileChunks}

\* The batches handed to add_batch: the chunk of a.py with its vector, then
\* a chunk of b.md with or without one.
FileBatches ==
    {<<a, b>> : a \in {c \in FilePool : c.file_path = PathA /\ ~IsNone(c.embedding)},
                b \in {c \in FilePool : c.file_path = PathB /\ c.end_line = 1}}

\* The index directory at construction: no file, one file, unparsable
\* files, an index whose second or only entry has no valid chunk type, and
\* a pair as _save writes it.
WellFormed(c) == <<c.id, to_dict(c)>>

Malformed(c) == <<c.id, [to_dict(c) EXCEPT !.chunk_type = "?"]>>

Vectors(chunks) == [k \in 1..Len(chunks) |-> <<chunks[k].id, EmbedOf(chunks[k].content)>>]

InitialDisks ==
    LET b == ChunkTable[PathB][Some(Text3)] IN
    {[index |-> None, embeddings |-> None],
     [index |-> Some(Json(<<WellFormed(b[1])>>)), embeddings |-> None],
     [index |-> Some(Unparsable), embeddings |-> Some(Json(Vectors(b)))],
     [index |-> Some(Json(<<WellFormed(b[1])>>)), embeddings |-> Some(Unparsable)],
     [index |-> Some(Json(<<Malformed(b[1])>>)),
      embeddings |-> Some(Json(Vectors(b)))],
     [index |-> Some(Json(<<WellFormed(b[1]), Malformed(b[2])>>)),
      embeddings |-> Some(Json(Vectors(b)))],
     [index |-> Some(Json(<<WellFormed(b[1]), WellFormed(b[2])>>)),
      embeddings |-> Some(Json(Vectors(b)))]}

\* A CodebaseIndexer constructed on a FileVectorStorage of directory d.
OpenIndexer(d) == [NewIndexer EXCEPT !.store = _load(d)]

InitFile ==
    /\ fs = [p \in Paths |-> Some(Text3)]
    /\ indexer = NewIndexer
    /\ ret = [op |-> "init"]
    /\ nops = 0
    /\ seen = [p \in Paths |-> None]
    /\ snap = None
    /\ StorageIdle
    /\ CacheIdle
    /\ disk \in InitialDisks
    /\ findexer = OpenIndexer(disk)
    /\ fret = [op |-> "open", io |-> "ok", arg |-> None, before |-> EmptyStore,
               result |-> None, raised |-> FALSE]
    /\ fops = 0

\* A call on the file-backed indexer or its storage has ended with r.
FileReturned(op, io, arg, result, r_store, r_ix, r_disk, raised) ==
    /\ fops < MaxFileOps
    /\ fops' = fops + 1
    /\ findexer' = [r_ix EXCEPT !.store = r_store]
    /\ disk' = r_disk
    /\ fret' = [op |-> op, io |-> io, arg |-> arg, before |-> findexer.store,
                result |-> result, raised |-> raised]
    /\ UNCHANGED notf

\* await storage.add(chunk)
FAdd(chunk, io) ==
    FileReturned("add", io, None, None,
                 file_add(findexer.store, disk, chunk, io).store, findexer,
                 file_add(findexer.store, disk, chunk, io).disk,
                 file_add(findexer.store, disk, chunk, io).raised)

\* await storage.add_batch(chunks)
FAddBatch(chunks, io) ==
    FileReturned("add_batch", io, None, None,
                 file_add_batch(findexer.store, disk, chunks, io).store, findexer,
                 file_add_batch(findexer.store, disk, chunks, io).disk,
                 file_add_batch(findexer.store, disk, chunks, io).raised)

\* await storage.delete(chunk_id)
FDelete(chunk_id, io) ==
    FileReturned("delete", io, None, None,
                 file_delete(findexer.store, disk, chunk_id, io).store, findexer,
                 file_delete(findexer.store, disk, chunk_id, io).disk,
                 file_delete(findexer.store, disk, chunk_id, io).raised)

\* await storage.clear()
FStorageClear(io) ==
    FileReturned("storage.clear", io, None, None,
                 file_clear(findexer.store, disk, io).store, findexer,
                 file_clear(findexer.store, disk, io).disk,
                 file_clear(findexer.store, disk, io).raised)

\* await indexer.index_file(path)
FIndexFile(path, outcome, io) ==
    FileReturned("index_file", io, Some(path), None,
                 file_index_file(findexer, disk, fs, path, outcome, io).ix.store,
                 file_index_file(findexer, disk, fs, path, outcome, io).ix,
                 file_index_file(findexer, disk, fs, path, outcome, io).disk,
                 file_index_file(findexer, disk, fs, path, outcome, io).raised)

\* await indexer.remove_file(path)
FRemoveFile(path) ==
    FileReturned("remove_file", "ok", Some(path),
                 Some(file_remove_file(findexer, path).result),
                 file_remove_file(findexer, path).ix.store,
                 file_remove_file(findexer, path).ix, disk, FALSE)

\* await indexer.clear()
FClear(io) ==
    FileReturned("clear", io, None, None,
                 file_indexer_clear(findexer, disk, io).ix.store,
                 file_indexer_clear(findexer, disk, io).ix,
                 file_indexer_clear(findexer, disk, io).disk,
                 file_indexer_clear(findexer, disk, io).raised)

\* The program is started again: a new storage and a new indexer are
\* constructed on the directory.
Reopen ==
    FileReturned("open", "ok", None, None, _load(disk), NewIndexer, disk, FALSE)

NextFile ==
    \/ \E chunk \in FilePool, io \in IOs : FAdd(chunk, io)
    \/ \E chunks \in FileBatches, io \in IOs : FAddBatch(chunks, io)
    \/ \E c \in FileChunks, io \in IOs : FDelete(c.id, io)
    \/ \E io \in IOs : FStorageClear(io)
    \/ \E path \in Paths, outcome \in Outcomes, io \in IOs :
          FIndexFile(path, outcome, io)
    \/ \E path \in Paths : FRemoveFile(path)
    \/ \E io \in IOs : FClear(io)
    \/ Reopen

SpecFile == InitFile /\ [][NextFile]_vars

(***************************************************************************)
(* Embedding providers with a cache (embeddings.py): CachedEmbeddings      *)
(* around a provider, and OpenAIEmbeddings in front of the HTTP API.       *)
(***************************************************************************)
MaxEmbedOps == 3

\* _cache_key: the md5 of the text, taken to be injective.
_cache_key(text) == <<"md5", text>>

\* What lies under the cache (the wrapped provider, the HTTP API) answers
\* its call number n with one vector per text, in order; a vector tells the
\* text and the call it was made in.
ProviderVectors(texts, n) == [i \in 1..Len(texts) |-> <<Len(texts[i]), n>>]

\* The split that takes every text for uncached.
IndicesToEmbed_All(cache, texts) == [i \in 1..Len(texts) |-> i]

\* indices_to_embed: the positions of the texts that are not cached.
IndicesToEmbed(cache, texts) ==
    SelectSeq([i \in 1..Len(texts) |-> i],
              LAMBDA i : ~HasKey(cache, _cache_key(texts[i])))

\* The write-back that puts vector i at position i.
RECURSIVE WriteBack_InOrder(_, _, _, _, _)
WriteBack_InOrder(acc, texts, indices, new_embeddings, i) ==
    IF i > Len(new_embeddings) THEN acc
    ELSE WriteBack_InOrder(
            [results |-> [acc.results EXCEPT ![i] = Some(new_embeddings[i])],
             cache |-> Put(acc.cache, _cache_key(texts[indices[i]]),
                           new_embeddings[i])],
            texts, indices, new_embeddings, i + 1)

\* The loop that writes the new vectors back: vector i goes to the
\* original position of text i and into the cache.  acc = [results, cache].
RECURSIVE WriteBack(_, _, _, _, _)
WriteBack(acc, texts, indices, new_embeddings, i) ==
    IF i > Len(new_embeddings) THEN acc
    ELSE WriteBack(
            [results |-> [acc.results EXCEPT ![indices[i]] = Some(new_embeddings[i])],
             cache |-> Put(acc.cache, _cache_key(texts[indices[i]]),
                           new_embeddings[i])],
            texts, indices, new_embeddings, i + 1)

\* results after the first loop: the cached vector where there is one,
\* None elsewhere.
CachedResults(cache, texts) ==
    [i \in 1..Len(texts) |->
        IF HasKey(cache, _cache_key(texts[i]))
        THEN Some(Get(cache, _cache_key(texts[i]))) ELSE None]

\* CachedEmbeddings._load_cache on the file at the cache path: no file
\* leaves the cache empty, an unparsable one too.
_load_cache(file) ==
    IF IsNone(file) THEN <<>>
    ELSE IF ~file[1].ok THEN <<>>
    ELSE file[1].data

\* The save that writes nothing.
_save_cache_WritingNothing(cache, file, saved) ==
    [file |-> file, raised |-> ~saved]

\* CachedEmbeddings._save_cache; saved tells whether the file can be
\* written (open raises if not).
_save_cache(cache, file, saved) ==
    IF saved THEN [file |-> Some(Json(cache)), raised |-> FALSE]
    ELSE [file |-> file, raised |-> TRUE]

\* What happens in one call: the provider answers and the cache file is
\* written, or the provider raises, or writing the file raises.
EmbedOutcomes == {"ok", "raise", "nosave"}

\* The end of CachedEmbeddings.embed_batch once the provider has answered
\* and w = [results, cache] was written back.
CachedBatchDone(w, file, outcome, sent) ==
    [cache |-> w.cache,
     file |-> _save_cache(w.cache, file, outcome # "nosave").file,
     result |-> w.results,
     raised |-> _save_cache(w.cache, file, outcome # "nosave").raised,
     sent |-> sent]

\* CachedEmbeddings.embed_batch(texts), the provider being at its call n.
\* Gives the cache, the file, the result, whether the call raised, and the
\* texts passed to the provider (None: it was not called).
CachedEmbeddings_embed_batch(cache, file, texts, outcome, n) ==
    LET indices == IndicesToEmbed(cache, texts)
        texts_to_embed == [j \in 1..Len(indices) |-> texts[indices[j]]]
    IN IF indices = <<>>
       THEN [cache |-> cache, file |-> file,
             result |-> CachedResults(cache, texts), raised |-> FALSE,
             sent |-> None]
       ELSE IF outcome = "raise"
       THEN [cache |-> cache, file |-> file, result |-> <<>>,
             raised |-> TRUE, sent |-> Some(texts_to_embed)]
       ELSE CachedBatchDone(
                WriteBack([results |-> CachedResults(cache, texts),
                           cache |-> cache],
                          texts, indices, ProviderVectors(texts_to_embed, n), 1),
                file, outcome, Some(texts_to_embed))

\* CachedEmbeddings.embed(text); the result is a list of one element here.
CachedEmbeddings_embed(cache, file, text, outcome, n) ==
    IF HasKey(cache, _cache_key(text))
    THEN [cache |-> cache, file |-> file,
          result |-> <<Some(Get(cache, _cache_key(text)))>>,
          raised |-> FALSE, sent |-> None]
    ELSE IF outcome = "raise"
    THEN [cache |-> cache, file |-> file, result |-> <<>>, raised |-> TRUE,
          sent |-> Some(<<text>>)]
    ELSE CachedBatchDone(
             [results |-> <<Some(ProviderVectors(<<text>>, n)[1])>>,
              cache |-> Put(cache, _cache_key(text),
                            ProviderVectors(<<text>>, n)[1])],
             file, outcome, Some(<<text>>))

\* OpenAIEmbeddings.embed_batch(texts), the API being at its call n; the
\* request raises or is answered with one item per text sent.
OpenAIEmbeddings_embed_batch(cache, texts, outcome, n) ==
    LET indices == IndicesToEmbed(cache, texts)
        texts_to_embed == [j \in 1..Len(indices) |-> texts[indices[j]]]
        w == WriteBack([results |-> CachedResults(cache, texts),
                        cache |-> cache],
                       texts, indices, ProviderVectors(texts_to_embed, n), 1)
    IN IF texts = <<>>
       THEN [cache |-> cache, result |-> <<>>, raised |-> FALSE, sent |-> None]
       ELSE IF indices = <<>>
       THEN [cache |-> cache, result |-> CachedResults(cache, texts),
             raised |-> FALSE, sent |-> None]
       ELSE IF outcome = "raise"
       THEN [cache |-> cache, result |-> <<>>, raised |-> TRUE,
             sent |-> Some(texts_to_embed)]
       ELSE [cache |-> w.cache, result |-> w.results, raised |-> FALSE,
             sent |-> Some(texts_to_embed)]

\* OpenAIEmbeddings.embed(text): a miss goes through embed_batch([text]),
\* and its first vector is cached again.
OpenAIEmbeddings_embed(cache, text, outcome, n) ==
    LET b == OpenAIEmbeddings_embed_batch(cache, <<text>>, outcome, n) IN
    IF HasKey(cache, _cache_key(text))
    THEN [cache |-> cache, result |-> <<Some(Get(cache, _cache_key(text)))>>,
          raised |-> FALSE, sent |-> None]
    ELSE IF b.raised THEN b
    ELSE [cache |-> Put(b.cache, _cache_key(text), b.result[1][1]),
          result |-> <<b.result[1]>>, raised |-> FALSE, sent |-> b.sent]

\* The texts embedded, and the lists passed to embed_batch: empty, one
\* text, two texts (the same or not), and one text around another.
TextA == <<"a">>

TextB == <<"b", "b">>

EmbedTexts == {TextA, TextB}

EmbedBatches ==
    {<<>>, <<TextA, TextB, TextA>>}
    \cup {<<t>> : t \in EmbedTexts}
    \cup {<<t, u>> : t \in EmbedTexts, u \in EmbedTexts}

\* The file at the cache path when the wrapper is constructed: none, an
\* unparsable one, or one holding a vector for the first text.
InitialCacheFiles ==
    {None, Some(Unparsable), Some(Json(<<<<_cache_key(TextA), <<1, 0>>>>>>))}

\* One provider is followed in a behaviour: a CachedEmbeddings with a cache
\* path, constructed on the file, or an OpenAIEmbeddings.
InitEmbed ==
    /\ fs = [p \in Paths |-> None]
    /\ indexer = NewIndexer
    /\ ret = [op |-> "init"]
    /\ nops = 0
    /\ seen = [p \in Paths |-> None]
    /\ snap = None
    /\ StorageIdle
    /\ FileIdle
    /\ cachefile \in InitialCacheFiles
    /\ \/ /\ eret = [obj |-> "cached", op |-> "init", texts |-> <<>>,
                     before |-> <<>>, result |-> <<>>, raised |-> FALSE,
                     sent |-> None]
          /\ cached = [cache |-> _load_cache(cachefile)]
       \/ /\ eret = [obj |-> "openai", op |-> "init", texts |-> <<>>,
                     before |-> <<>>, result |-> <<>>, raised |-> FALSE,
                     sent |-> None]
          /\ cachefile = None
          /\ cached = [cache |-> <<>>]
    /\ remote = [cache |-> <<>>]
    /\ backend = [calls |-> 0]
    /\ eops = 0
    /\ local = [model |-> None, dimensions |-> None, built |-> 0]

\* A call on the provider followed has ended with r; the provider under it
\* has made one more call if texts were sent to it.
EmbedReturned(op, texts, before, r) ==
    /\ eops < MaxEmbedOps
    /\ eops' = eops + 1
    /\ eret' = [obj |-> eret.obj, op |-> op, texts |-> texts,
                before |-> before, result |-> r.result, raised |-> r.raised,
                sent |-> r.sent]
    /\ backend' = [calls |-> IF IsNone(r.sent) THEN backend.calls
                             ELSE backend.calls + 1]
    /\ UNCHANGED <<note, local>>

\* await cached.embed(text)
CEmbed(text, outcome) ==
    /\ eret.obj = "cached"
    /\ EmbedReturned("embed", <<text>>, cached.cache,
                     CachedEmbeddings_embed(cached.cache, cachefile, text,
                                            outcome, backend.calls + 1))
    /\ cached' = [cache |-> CachedEmbeddings_embed(
                               cached.cache, cachefile, text, outcome,
                               backend.calls + 1).cache]
    /\ cachefile' = CachedEmbeddings_embed(cached.cache, cachefile, text,
                                           outcome, backend.calls + 1).file
    /\ UNCHANGED remote

\* await cached.embed_batch(texts)
CEmbedBatch(texts, outcome) ==
    /\ eret.obj = "cached"
    /\ EmbedReturned("embed_batch", texts, cached.cache,
                     CachedEmbeddings_embed_batch(cached.cache, cachefile,
                                                  texts, outcome,
                                                  backend.calls + 1))
    /\ cached' = [cache |-> CachedEmbeddings_embed_batch(
                               cached.cache, cachefile, texts, outcome,
                               backend.calls + 1).cache]
    /\ cachefile' = CachedEmbeddings_embed_batch(
                        cached.cache, cachefile, texts, outcome,
                        backend.calls + 1).file
    /\ UNCHANGED remote

\* The program is started again: a new CachedEmbeddings is constructed on
\* the same cache path.
CReconstruct ==
    /\ eret.obj = "cached"
    /\ EmbedReturned("construct", <<>>, cached.cache,
                     [result |-> <<>>, raised |-> FALSE, sent |-> None])
    /\ cached' = [cache |-> _load_cache(cachefile)]
    /\ UNCHANGED <<cachefile, remote>>

\* await openai.embed(text)
REmbed(text, outcome) ==
    /\ eret.obj = "openai"
    /\ outcome # "nosave"
    /\ EmbedReturned("embed", <<text>>, remote.cache,
                     OpenAIEmbeddings_embed(remote.cache, text, outcome,
                                            backend.calls + 1))
    /\ remote' = [cache |-> OpenAIEmbeddings_embed(
                               remote.cache, text, outcome,
                               backend.calls + 1).cache]
    /\ UNCHANGED <<cached, cachefile>>

\* await openai.embed_batch(texts)
REmbedBatch(texts, outcome) ==
    /\ eret.obj = "openai"
    /\ outcome # "nosave"
    /\ EmbedReturned("embed_batch", texts, remote.cache,
                     OpenAIEmbeddings_embed_batch(remote.cache, texts, outcome,
                                                  backend.calls + 1))
    /\ remote' = [cache |-> OpenAIEmbeddings_embed_batch(
                               remote.cache, texts, outcome,
                               backend.calls + 1).cache]
    /\ UNCHANGED <<cached, cachefile>>

NextEmbed ==
    \/ \E text \in EmbedTexts, outcome \in EmbedOutcomes : CEmbed(text, outcome)
    \/ \E texts \in EmbedBatches, outcome \in EmbedOutcomes :
          CEmbedBatch(texts, outcome)
    \/ CReconstruct
    \/ \E text \in EmbedTexts, outcome \in EmbedOutcomes : REmbed(text, outcome)
    \/ \E texts \in EmbedBatches, outcome \in EmbedOutcomes :
          REmbedBatch(texts, outcome)

SpecEmbed == InitEmbed /\ [][NextEmbed]_vars

(***************************************************************************)
(* LocalEmbeddings (embeddings.py): the model is loaded on first use.      *)
(***************************************************************************)
MaxLocalOps == 4

\* What constructing the SentenceTransformer does when it is attempted:
\* it succeeds, the package is missing, or the constructor raises.
LoadOutcomes == {"ok", "ImportError", "OSError"}

\* The dimension the model reports.
ModelDimensions == 2

\* The loading that constructs a model at every call.
_load_model_EveryCall(lp, outcome) ==
    IF outcome = "ok"
    THEN [lp |-> [model |-> Some(lp.built + 1),
                  dimensions |-> Some(ModelDimensions),
                  built |-> lp.built + 1],
          raised |-> FALSE]
    ELSE [lp |-> lp, raised |-> TRUE]

\* LocalEmbeddings._load_model: a model is constructed only while there is
\* none; an exception of the construction leaves the provider as it was.
\* A model is told from another by its number.
_load_model(lp, outcome) ==
    IF ~IsNone(lp.model) THEN [lp |-> lp, raised |-> FALSE]
    ELSE IF outcome = "ok"
    THEN [lp |-> [model |-> Some(lp.built + 1),
                  dimensions |-> Some(ModelDimensions),
                  built |-> lp.built + 1],
          raised |-> FALSE]
    ELSE [lp |-> lp, raised |-> TRUE]

\* self._model.encode(texts): one vector per text, made by the model.
Encode(model, texts) == [i \in 1..Len(texts) |-> <<Len(texts[i]), model>>]

\* A call on the local provider has ended: m is what _load_model gave (the
\* provider unchanged and no exception if it was not called), outcome
\* being what constructing a model would do in this call, and the result
\* is computed with the model the provider then has.
LocalReturned(op, texts, outcome, m, result) ==
    /\ eops < MaxLocalOps
    /\ eops' = eops + 1
    /\ local' = m.lp
    /\ eret' = [op |-> op, texts |-> texts, outcome |-> outcome,
                raised |-> m.raised,
                result |-> IF m.raised THEN None ELSE Some(result)]
    /\ UNCHANGED <<note, cached, cachefile, remote, backend>>

\* provider.dimensions
LDimensions(outcome) ==
    LocalReturned("dimensions", <<>>, outcome, _load_model(local, outcome),
                  _load_model(local, outcome).lp.dimensions)

\* await provider.embed(text)
LEmbed(text, outcome) ==
    LocalReturned("embed", <<text>>, outcome, _load_model(local, outcome),
                  IF _load_model(local, outcome).raised THEN <<>>
                  ELSE Encode(_load_model(local, outcome).lp.model[1],
                              <<text>>)[1])

\* await provider.embed_batch(texts): nothing is loaded for an empty list.
LEmbedBatch(texts, outcome) ==
    IF texts = <<>>
    THEN LocalReturned("embed_batch", texts, outcome,
                       [lp |-> local, raised |-> FALSE],
                       <<>>)
    ELSE LocalReturned("embed_batch", texts, outcome, _load_model(local, outcome),
                       IF _load_model(local, outcome).raised THEN <<>>
                       ELSE Encode(_load_model(local, outcome).lp.model[1],
                                   texts))

InitLocal ==
    /\ fs = [p \in Paths |-> None]
    /\ indexer = NewIndexer
    /\ ret = [op |-> "init"]
    /\ nops = 0
    /\ seen = [p \in Paths |-> None]
    /\ snap = None
    /\ StorageIdle
    /\ FileIdle
    /\ CacheIdle

NextLocal ==
    \/ \E outcome \in LoadOutcomes : LDimensions(outcome)
    \/ \E text \in EmbedTexts, outcome \in LoadOutcomes : LEmbed(text, outcome)
    \/ \E texts \in EmbedBatches, outcome \in LoadOutcomes :
          LEmbedBatch(texts, outcome)

SpecLocal == InitLocal /\ [][NextLocal]_vars

(***************************************************************************)
(* The chunker on its own: CodeChunker objects of several configurations   *)
(* and chunk_file calls with the content given by the caller.             *)
(***************************************************************************)
MaxChunkOps == 1

\* The constructor arguments of CodeChunker.__init__ the model draws from.
ChunkerConfigs ==
    {[max_chunk_size |-> mx, min_chunk_size |-> mn, overlap |-> ov,
      respect_boundaries |-> rb, batch_size |-> 1] :
        mx \in {8, 12}, mn \in {2, 4}, ov \in {0, 100}, rb \in BOOLEAN}

LongLine == [i \in 1..24 |-> "a"]

TwoFullLines ==
    <<"a", "b", "c", "d", "e", "f", "g", "\n",
      "h", "i", "j", "k", "l", "m", "n">>

LeadThenDef ==
    <<"x", "=", "1", "\n", "d", "e", "f", " ", "f", "\n", " ", "p", "\n",
      " ", "q">>

TwoDefs ==
    <<"d", "e", "f", " ", "f", "\n", " ", "p", "\n",
      "d", "e", "f", " ", "g", "\n", " ", "q">>

ManyLines ==
    <<"a", "b", "c", "\n", "d", "e", "f", "g", "\n", "h", "i", "j", "\n",
      "k", "l", "\n", "m", "n", "o", "p", "\n", "q", "r", "s", "\n",
      "t", "u", "v", "\n", "w", "x">>

ShortText == <<"x", "=", "1">>

BlankText == <<" ", "\n", " ">>

ChunkContents ==
    {ShortText, BlankText, LongLine, TwoFullLines, LeadThenDef, TwoDefs,
     ManyLines, Text1, Text3}

InitChunk ==
    /\ fs = [p \in Paths |-> None]
    /\ indexer = NewIndexer
    /\ ret = [op |-> "init"]
    /\ nops = 0
    /\ seen = [p \in Paths |-> None]
    /\ snap = None
    /\ StorageIdle
    /\ FileIdle
    /\ CacheIdle

\* CodeChunker(cfg).chunk_file(file_path, content)
ChunkFile(cfg, file_path, content) ==
    /\ nops < MaxChunkOps
    /\ ret' = [op |-> "chunk_file", cfg |-> cfg, file_path |-> file_path,
               content |-> content,
               result |-> chunk_file(cfg, file_path, Some(content))]
    /\ nops' = nops + 1
    /\ UNCHANGED <<fs, indexer, seen, snap, notix>>

NextChunk ==
    \E cfg \in ChunkerConfigs, file_path \in Paths, content \in ChunkContents :
        ChunkFile(cfg, file_path, content)

SpecChunk == InitChunk /\ [][NextChunk]_vars

(***************************************************************************)
(* Longer lives of one indexer: index_file with and without force,         *)
(* remove_file and get_stats on files that are not rewritten, with a       *)
(* provider that answers every call.                                       *)
(***************************************************************************)
MaxLifeOps == 3

ProviderAnswers == [kind |-> "ok", k |-> 0]

\* await indexer.index_file(path, force=force)
LifeIndexFile(path, force) ==
    /\ nops < MaxLifeOps
    /\ IndexFileReturned(path, None, force,
                         index_file(indexer, fs, path, None, force,
                                    ProviderAnswers))
    /\ nops' = nops + 1
    /\ seen' = IF ~force /\ ~IsNone(fs[path])
               THEN [seen EXCEPT ![path] = fs[path]] ELSE seen
    /\ snap' = IF ~force THEN None ELSE snap
    /\ UNCHANGED <<fs, notix>>

\* await indexer.remove_file(path)
LifeRemoveFile(path) ==
    /\ nops < MaxLifeOps
    /\ LET r == remove_file(indexer, path) IN
       /\ indexer' = r.ix
       /\ ret' = [op |-> "remove_file", path |-> path, result |-> r.result,
                  raised |-> r.raised]
    /\ nops' = nops + 1
    /\ UNCHANGED <<fs, seen, snap, notix>>

\* await indexer.get_stats()
LifeGetStats ==
    /\ nops < MaxLifeOps
    /\ indexer' = get_stats(indexer)
    /\ ret' = [op |-> "get_stats", result |-> indexer'.stats]
    /\ nops' = nops + 1
    /\ UNCHANGED <<fs, seen, snap, notix>>

NextLife ==
    \/ \E path \in Paths, force \in BOOLEAN : LifeIndexFile(path, force)
    \/ \E path \in Paths : LifeRemoveFile(path)
    \/ LifeGetStats

SpecLife == Init /\ [][NextLife]_vars

(***************************************************************************)
(* Properties.                                                             *)
(***************************************************************************)
\* The step is a call (not a file write) of the named operation.
Called(op) == nops' = nops + 1 /\ ret'.op = op

\* The chunks and the vectors a store holds for one file, in order.
StoredFor(st, path) ==
    [chunks |-> SelectSeq(st.chunks, LAMBDA e : e[2].file_path = path),
     embeddings |-> SelectSeq(st.embeddings, LAMBDA e : e[1][1] = path)]

\* C1: for an existing file whose bytes are those of the previous
\* index_file(path) without force, index_file(path) without force returns
\* an empty list, makes no embed_batch call and leaves the vector store
\* unchanged.
C1_UnchangedFileSkipped ==
    [][(/\ Called("index_file")
        /\ ~ret'.force
        /\ ~IsNone(fs[ret'.path])
        /\ seen[ret'.path] = fs[ret'.path])
       => (/\ ret'.result = <<>>
           /\ ~ret'.raised
           /\ IsNone(ret'.embedded)
           /\ indexer'.store = indexer.store)]_vars

\* C1 witness: a second index_file without force on an unchanged file whose
\* chunks the first call stored.
C1_Witness ==
    /\ ret.op = "index_file"
    /\ ~ret.force
    /\ ret.repeat
    /\ ret.result = <<>>
    /\ StoredFor(indexer.store, ret.path).chunks # <<>>

\* C2: if index_file(path) without force raises, the fingerprint recorded
\* for path after the call is the one recorded before it.
C2_FailureKeepsFingerprint ==
    [][(Called("index_file") /\ ~ret'.force /\ ret'.raised)
       => indexer'.file_hashes = indexer.file_hashes]_vars

\* C3: if index_file raises, the vector store afterwards holds either all
\* of the chunks the call produced for the file or none of them.
C3_FailureStoresAllOrNothing ==
    [][(Called("index_file") /\ ret'.raised)
       => LET chunks == self_chunker_chunk_file(
                            ret'.path,
                            IF IsNone(ret'.content) THEN fs[ret'.path]
                            ELSE ret'.content)
              produced == {chunks[i].id : i \in 1..Len(chunks)}
          IN \/ \A id \in produced : HasKey(indexer'.store.chunks, id)
             \/ \A id \in produced : ~HasKey(indexer'.store.chunks, id)]_vars

C5_OldChunksRemoved ==
    (ret.op = "index_file" /\ ~ret.raised /\ ret.result # <<>>)
    => \A query \in {Text1, Text2, Text3} :
          LET results == search(indexer.store, EmbedOf(query),
                                count(indexer.store), None) IN
          \A i \in 1..Len(results) :
             results[i].chunk.file_path = ret.path
             => \E k \in 1..Len(ret.result) : ret.result[k] = results[i].chunk.id

\* C9: the string get_context returns has at most max_tokens * 4
\* characters.
C9_ContextWithinBudget ==
    ret.op = "get_context" => Len(ret.result) <= ret.max_tokens * 4

\* A counter of stats s, or 0 for a language not counted yet.
LanguageCount(st, lang) ==
    IF HasKey(st.languages, lang) THEN Get(st.languages, lang) ELSE 0

\* C10: from one observation of the statistics (the value get_stats or
\* index_directory returns) to the next, with no clear() in between, no
\* counter decreases.
C10_CountersNeverDecrease ==
    [][(/\ ret.op \in {"get_stats", "index_directory"}
        /\ nops' = nops + 1
        /\ ret'.op \in {"get_stats", "index_directory"})
       => (/\ ret'.result.total_files >= ret.result.total_files
           /\ ret'.result.total_chunks >= ret.result.total_chunks
           /\ ret'.result.total_characters >= ret.result.total_characters
           /\ \A lang \in Keys(ret.result.languages) :
                 LanguageCount(ret'.result, lang) >= LanguageCount(ret.result, lang))]_vars

\* C10 as amended: in every step other than clear(), the total characters
\* and every per-language chunk count do not decrease.
C10_CharactersAndLanguagesNeverDecrease ==
    [][~Called("clear")
       => (/\ indexer'.stats.total_characters >= indexer.stats.total_characters
           /\ \A lang \in Keys(indexer.stats.languages) :
                 LanguageCount(indexer'.stats, lang)
                    >= LanguageCount(indexer.stats, lang))]_vars

\* C10 witness: statistics observed by get_stats after chunks were counted.
C10_Witness ==
    /\ ret.op = "get_stats"
    /\ ret.result.total_characters > 0
    /\ ret.result.languages # <<>>

\* The step is a call on the standalone storage.
StorageCalled(op) == sops' = sops + 1 /\ sret'.op = op

\* C6: when delete(chunk_id) returns True the chunk and its vector are gone
\* and count() is one less than before; and no search made while the id is
\* deleted (not added again) returns a result with that id.
C6_DeletedChunkGone ==
    [][/\ (StorageCalled("delete") /\ sret'.result)
          => (/\ count(storage') = count(storage) - 1
              /\ ~HasKey(storage'.chunks, sret'.id)
              /\ ~HasKey(storage'.embeddings, sret'.id))
       /\ StorageCalled("search")
          => \A i \in 1..Len(sret'.result) :
                sret'.result[i].chunk.id \notin deleted]_vars

\* C6 witness: a search that returns results after a delete returned True.
C6_Witness ==
    /\ sret.op = "search"
    /\ deleted # {}
    /\ sret.result # <<>>

\* C7: the results of a search are in strictly descending score order and
\* the result at 0-based position i has rank i.
C7_StrictlyDescendingRanked ==
    sret.op = "search"
    => (/\ \A i \in 1..(Len(sret.result) - 1) :
              ScoreLess(sret.result[i + 1].score, sret.result[i].score)
        /\ \A i \in 1..Len(sret.result) : sret.result[i].rank = i - 1)

\* C7 as amended: no result of a search has a greater score than the result
\* before it, and the result at 0-based position i has rank i.
C7_DescendingRanked ==
    sret.op = "search"
    => (/\ \A i \in 1..(Len(sret.result) - 1) :
              ~ScoreLess(sret.result[i].score, sret.result[i + 1].score)
        /\ \A i \in 1..Len(sret.result) : sret.result[i].rank = i - 1)

\* C7 witness: a search whose results were reordered by score, two of them
\* with equal scores and one with a smaller score.
C7_Witness ==
    /\ sret.op = "search"
    /\ Len(sret.result) >= 3
    /\ sret.result[1].chunk.id # storage.chunks[1][1]
    /\ ScoreEq(sret.result[1].score, sret.result[2].score)
    /\ ScoreLess(sret.result[3].score, sret.result[2].score)

\* The chunk satisfies every predicate the filters state: its path begins
\* with the prefix, its language is the language, its kind is the kind.
Satisfies(chunk, filters) ==
    LET f == IF IsNone(filters) THEN NoFilters ELSE filters[1] IN
    /\ f.file_path # None
       => /\ Len(chunk.file_path) >= Len(f.file_path[1])
          /\ SubSeq(chunk.file_path, 1, Len(f.file_path[1])) = f.file_path[1]
    /\ f.language # None => chunk.language = f.language[1]
    /\ f.chunk_type # None => chunk.chunk_type = f.chunk_type[1]

\* C8: a search with top_k at least the number of stored chunks returns
\* exactly the stored chunks that satisfy every active predicate of the
\* filters, each once.
C8_FilterExact ==
    (sret.op = "search" /\ sret.top_k >= count(storage))
    => LET matching == {i \in 1..Len(storage.chunks) :
                           Satisfies(storage.chunks[i][2], sret.filters)}
       IN /\ {sret.result[i].chunk : i \in 1..Len(sret.result)}
               = {storage.chunks[i][2] : i \in matching}
          /\ Len(sret.result) = Cardinality(matching)

\* C8 witness: a filtered search with top_k no less than the count that
\* returned some of the stored chunks and left others out.
C8_Witness ==
    /\ sret.op = "search"
    /\ sret.top_k >= count(storage)
    /\ ~IsNone(sret.filters)
    /\ sret.result # <<>>
    /\ Len(sret.result) < count(storage)

\* The index_file calls of the last index_directory, in order.
IndexFileEvents == SelectSeq(ret.events, LAMBDA e : e.kind = "index_file")

\* The progress callbacks of the last index_directory, in order.
ProgressEvents == SelectSeq(ret.events, LAMBDA e : e.kind = "progress")

\* The number of index_file calls before event j of the last
\* index_directory.
FilesBefore(j) ==
    Cardinality({i \in 1..(j - 1) : ret.events[i].kind = "index_file"})

\* C12: when index_directory has returned, whatever subset of the files
\* made index_file raise, every discovered file (every file of the tree
\* with an included extension) was passed to index_file exactly once.
C12_FailuresDoNotAbort ==
    ret.op = "index_directory" =>
        \A p \in BatchPaths :
            ~IsNone(fs[p]) =>
                Cardinality({i \in 1..Len(IndexFileEvents) :
                                IndexFileEvents[i].path = p}) = 1

\* index_directory returned after index_file raised for the first of three
\* files, with batches of one file.
C12_Witness ==
    /\ ret.op = "index_directory"
    /\ ret.batch_size = 1
    /\ Len(ret.files) = 3
    /\ Len(IndexFileEvents) = 3
    /\ IndexFileEvents[1].raised
    /\ ~IndexFileEvents[3].raised

\* C13: with n files found and batch size b, the progress callback is
\* invoked ceil(n/b) times (never when n = 0); invocation k comes after the
\* files of batch k and before those of batch k+1; the fractions are in
\* (0, 1], strictly increasing, and the last one is 1.
C13_ProgressPerBatch ==
    (ret.op = "index_directory" /\ ret.progress_callback) =>
        LET n == Len(ret.files)
            b == ret.batch_size
            P == ProgressEvents
            At == SelectSeq([j \in 1..Len(ret.events) |-> j],
                            LAMBDA j : ret.events[j].kind = "progress")
        IN /\ Len(P) = (n + b - 1) \div b
           /\ \A k \in 1..Len(P) :
                 /\ FilesBefore(At[k]) = Min(k * b, n)
                 /\ 0 < P[k].num
                 /\ P[k].num <= P[k].den
                 /\ k < Len(P) =>
                       P[k].num * P[k + 1].den < P[k + 1].num * P[k].den
           /\ Len(P) > 0 => P[Len(P)].num = P[Len(P)].den

\* Three files in batches of two: two callbacks, the second after a batch
\* of one file.
C13_Witness ==
    /\ ret.op = "index_directory"
    /\ ret.progress_callback
    /\ ret.batch_size = 2
    /\ Len(ret.files) = 3
    /\ Len(ProgressEvents) = 2

\* No file found: index_directory returns without calling back.
C13_WitnessEmpty ==
    /\ ret.op = "index_directory"
    /\ ret.progress_callback
    /\ Len(ret.files) = 0
    /\ ret.events = <<>>

\* The step is a call of the named operation on the file-backed indexer or
\* its storage.
FileCalled(op) == fops' = fops + 1 /\ fret'.op = op

\* The indexer is as a new one: empty store, no fingerprint, counters zero.
AllReset(ix) ==
    /\ count(ix.store) = 0
    /\ ix.file_hashes = <<>>
    /\ ix.stats = NewStats

\* C11: when clear() ends, returning or raising, the store, the
\* fingerprint table and the statistics are all reset or all as they were
\* before the call.
C11_ClearResetsTogether ==
    [][FileCalled("clear") => (AllReset(findexer') \/ findexer' = findexer)]_vars

\* The ids and scores of the answer to a search.
IdsAndScores(results) ==
    [k \in 1..Len(results) |-> <<results[k].chunk.id, results[k].score>>]

\* A storage constructed on directory d has the count, the ids, the vectors
\* and the search answers of the memory mem.
Reflects(d, mem) ==
    /\ count(_load(d)) = count(mem)
    /\ Keys(_load(d).chunks) = Keys(mem.chunks)
    /\ Keys(_load(d).embeddings) = Keys(mem.embeddings)
    /\ \A id \in Keys(mem.embeddings) :
          Get(_load(d).embeddings, id) = Get(mem.embeddings, id)
    /\ \A q \in QueryVectors :
          IdsAndScores(search(_load(d), q, 6, None)) =
              IdsAndScores(search(mem, q, 6, None))

\* C17: a mutating call on the storage (add, add_batch, delete, clear)
\* during which the files can be written, made when the files reflect the
\* memory, leaves files that reflect the memory.
C17_DiskReflectsMemory ==
    [][((\E op \in {"add", "add_batch", "delete", "storage.clear"} :
            FileCalled(op))
        /\ fret'.io = "ok"
        /\ Reflects(disk, findexer.store))
       => Reflects(disk', findexer'.store)]_vars

\* The directory has no usable pair of files: one is missing or
\* unparsable, or an entry of index.json is malformed.
BadDirectory(d) ==
    \/ IsNone(d.index) \/ IsNone(d.embeddings)
    \/ ~d.index[1].ok \/ ~d.embeddings[1].ok
    \/ \E k \in 1..Len(d.index[1].data) :
          d.index[1].data[k][2].chunk_type \notin ChunkTypeValues

\* C18: a storage constructed on a directory with no usable pair of files
\* is empty.
C18_BadDirectoryStartsEmpty ==
    (fret.op = "open" /\ BadDirectory(disk)) => count(findexer.store) = 0

\* C19: remove_file returns the number of chunks of the file that were
\* stored, and none of them remains in the store (here for the file-backed
\* storage).
C19_RemoveFileRemovesAll ==
    [][FileCalled("remove_file") =>
          /\ fret'.result[1] =
                 Cardinality({k \in 1..Len(findexer.store.chunks) :
                    findexer.store.chunks[k][2].file_path = fret'.arg[1]})
          /\ \A k \in 1..Len(findexer'.store.chunks) :
                findexer'.store.chunks[k][2].file_path # fret'.arg[1]]_vars

\* The cache of the provider followed.
CacheNow == IF eret.obj = "cached" THEN cached.cache ELSE remote.cache

\* C14: an embed_batch call that returns, on the caching wrapper or the
\* remote provider, gives one element per text, none unset; element i is
\* the vector cached for texts[i] before the call if there was one, and
\* otherwise the vector the provider under it made for that text in this
\* call.
C14_BatchOrderPreserved ==
    (eret.op = "embed_batch" /\ ~eret.raised) =>
        /\ Len(eret.result) = Len(eret.texts)
        /\ \A i \in 1..Len(eret.texts) :
              /\ ~IsNone(eret.result[i])
              /\ eret.result[i][1] =
                    IF HasKey(eret.before, _cache_key(eret.texts[i]))
                    THEN Get(eret.before, _cache_key(eret.texts[i]))
                    ELSE <<Len(eret.texts[i]), backend.calls>>

\* A batch with a text twice, uncached, around a cached one, on either
\* provider.
C14_Witness ==
    /\ eret.op = "embed_batch"
    /\ ~eret.raised
    /\ eret.texts = <<TextA, TextB, TextA>>
    /\ HasKey(eret.before, _cache_key(TextB))
    /\ ~HasKey(eret.before, _cache_key(TextA))
    /\ eret.sent = Some(<<TextA, TextA>>)

\* C15: no text passed to the provider under the cache had its hash in the
\* cache when the call was made, and after a call that returns every text
\* of the call has its hash in the cache.
C15_OnlyMissesSent ==
    eret.op \in {"embed", "embed_batch"} =>
        /\ ~IsNone(eret.sent) =>
              \A j \in 1..Len(eret.sent[1]) :
                  ~HasKey(eret.before, _cache_key(eret.sent[1][j]))
        /\ ~eret.raised =>
              \A i \in 1..Len(eret.texts) :
                  HasKey(CacheNow, _cache_key(eret.texts[i]))

\* A batch of a text cached by an earlier call and a new one: only the new
\* one is sent.
C15_Witness ==
    /\ eret.op = "embed_batch"
    /\ ~eret.raised
    /\ eret.texts = <<TextA, TextB>>
    /\ HasKey(eret.before, _cache_key(TextA))
    /\ Get(eret.before, _cache_key(TextA))[2] > 0
    /\ eret.sent = Some(<<TextB>>)

\* C16: a call on a CachedEmbeddings with a cache path that returns, made
\* when the cache file holds the cache, leaves a cache file that holds the
\* cache, every text of the call included: a new CachedEmbeddings on the
\* path has the same mapping.
C16_CacheFileHoldsCache ==
    [][(/\ eops' = eops + 1
        /\ eret'.obj = "cached"
        /\ eret'.op \in {"embed", "embed_batch"}
        /\ ~eret'.raised
        /\ _load_cache(cachefile) = cached.cache)
       => /\ _load_cache(cachefile') = cached'.cache
          /\ \A i \in 1..Len(eret'.texts) :
                HasKey(_load_cache(cachefile'), _cache_key(eret'.texts[i]))]_vars

\* Both texts were embedded and the file holds both; the last call found
\* one of them in the cache.
C16_Witness ==
    /\ eret.obj = "cached"
    /\ eret.op = "embed_batch"
    /\ ~eret.raised
    /\ eret.before # <<>>
    /\ ~IsNone(eret.sent)
    /\ ~IsNone(cachefile)
    /\ Len(_load_cache(cachefile)) = 2
    /\ _load_cache(cachefile) = cached.cache

\* The stored chunk a location was made of.
ChunkOf(location) ==
    (CHOOSE e \in {storage.chunks[k] : k \in 1..Len(storage.chunks)} :
        CodeLocation(e[2]) = location)[2]

\* The score of a stored chunk against the source chunk.
ScoreAgainst(source, chunk_id) ==
    _cosine_similarity(source.embedding[1], Get(storage.embeddings, chunk_id))

\* C20: when the line lies in a stored chunk of the file that has a vector
\* (the source: the first such chunk of the file), find_similar returns at
\* most top_k locations, each of another stored chunk than the source; no
\* chunk left out, other than the source, scores higher than a returned
\* one, and the locations are in descending order of score.
C20_SimilarExcludesSource ==
    (/\ sret.op = "find_similar"
     /\ ~IsNone(TargetChunk(storage, sret.file_path, sret.line_number))) =>
        LET source == TargetChunk(storage, sret.file_path, sret.line_number)[1]
            others == Keys(storage.embeddings) \ {source.id}
            returned == {ChunkOf(sret.result[i]).id : i \in 1..Len(sret.result)}
        IN /\ Len(sret.result) <= sret.top_k
           /\ Cardinality(returned) = Len(sret.result)
           /\ source.id \notin returned
           /\ returned \subseteq others
           /\ \A id \in returned, other \in others \ returned :
                 ~ScoreLess(ScoreAgainst(source, id), ScoreAgainst(source, other))
           /\ \A i \in 1..Len(sret.result), j \in 1..Len(sret.result) :
                 i < j =>
                    ~ScoreLess(ScoreAgainst(source, ChunkOf(sret.result[i]).id),
                               ScoreAgainst(source, ChunkOf(sret.result[j]).id))

\* Two locations were returned out of three chunks other than the source,
\* with different scores.
C20_Witness ==
    /\ sret.op = "find_similar"
    /\ sret.top_k = 2
    /\ ~IsNone(TargetChunk(storage, sret.file_path, sret.line_number))
    /\ Len(storage.chunks) = 4
    /\ Len(sret.result) = 2
    /\ ScoreLess(ScoreAgainst(TargetChunk(storage, sret.file_path,
                                          sret.line_number)[1],
                              ChunkOf(sret.result[2]).id),
                 ScoreAgainst(TargetChunk(storage, sret.file_path,
                                          sret.line_number)[1],
                              ChunkOf(sret.result[1]).id))

\* The step is a call on the local provider.
LocalCalled == eops' = eops + 1

\* C21: at most one model is ever constructed and none before the first
\* call; once a model is there every call keeps it and computes with it;
\* dimensions returns only when a model is there, and returns its
\* dimension.
C21_ModelLoadedOnce ==
    [][LocalCalled =>
          /\ local'.built <= 1
          /\ eops = 0 => local.built = 0 /\ IsNone(local.model)
          /\ ~IsNone(local.model) =>
                /\ local' = local
                /\ ~eret'.raised
                /\ eret'.op = "embed" =>
                      eret'.result[1] = <<Len(eret'.texts[1]), local.model[1]>>
                /\ eret'.op = "embed_batch" =>
                      \A i \in 1..Len(eret'.texts) :
                          eret'.result[1][i] =
                              <<Len(eret'.texts[i]), local.model[1]>>
          /\ (eret'.op = "dimensions" /\ ~eret'.raised) =>
                /\ ~IsNone(local'.model)
                /\ eret'.result[1] = Some(ModelDimensions)]_vars

\* After one model was constructed, a third call, in which constructing
\* one would fail, is answered with that model.
C21_Witness ==
    /\ eops = 3
    /\ eret.outcome = "ImportError"
    /\ local.built = 1
    /\ eret.op = "embed_batch"
    /\ Len(eret.texts) = 2
    /\ ~eret.raised
    /\ eret.result[1][1][2] = 1

ChunkCalled == ret.op = "chunk_file"

IsSubstring(s, t) ==
    \E k \in 0..(Len(t) - Len(s)) : SubSeq(t, k + 1, k + Len(s)) = s

\* chunk_file took the size-based path directly.
SizeBasedPath ==
    \/ ~ret.cfg.respect_boundaries
    \/ SPLIT_PATTERNS(detect_language(ret.file_path)) = <<>>

\* C22: chunk_file on content that is not empty or whitespace-only returns
\* at least one chunk, whatever min_chunk_size is.
C22_NonBlankGivesChunk ==
    (ChunkCalled /\ Strip(ret.content) # <<>>) => ret.result # <<>>

\* C23: every chunk returned by chunk_file has start_line >= 1 and
\* end_line >= start_line, so that its line count is at least 1.
C23_LineNumbersValid ==
    ChunkCalled =>
        \A i \in 1..Len(ret.result) :
            /\ ret.result[i].start_line >= 1
            /\ ret.result[i].end_line >= ret.result[i].start_line
            /\ ret.result[i].end_line - ret.result[i].start_line + 1 >= 1

\* An oversized boundary chunk was re-split and a chunk spans two lines.
C23_Witness ==
    /\ ChunkCalled
    /\ ret.file_path = PathA
    /\ ret.cfg.respect_boundaries
    /\ ret.cfg.max_chunk_size = 8
    /\ ret.content = LeadThenDef
    /\ Len(ret.result) = 4
    /\ \E i \in 1..Len(ret.result) :
           ret.result[i].end_line > ret.result[i].start_line

\* C24: for every chunk returned by chunk_file, start_line and end_line are
\* 1-based line numbers of the original file and the chunk's text is text
\* found on lines start_line..end_line of that file.
C24_LinesOfOriginalFile ==
    ChunkCalled =>
        \A i \in 1..Len(ret.result) :
            LET c == ret.result[i]
                lines == SplitLines(ret.content)
            IN /\ 1 <= c.start_line
               /\ c.start_line <= c.end_line
               /\ c.end_line <= Len(lines)
               /\ IsSubstring(c.content,
                      JoinLines(SubSeq(lines, c.start_line, c.end_line)))

\* C25: content several times max_chunk_size long gives more than one
\* chunk, whatever its division into lines.
C25_OversizedGivesSeveral ==
    (/\ ChunkCalled
     /\ Strip(ret.content) # <<>>
     /\ Len(ret.content) >= 3 * ret.cfg.max_chunk_size)
    => Len(ret.result) > 1

\* C26: in the size-based fallback, when every line with its newline fits
\* in max_chunk_size, every chunk has at most max_chunk_size characters.
C26_SizeBasedWithinMax ==
    (/\ ChunkCalled
     /\ SizeBasedPath
     /\ \A j \in 1..Len(SplitLines(ret.content)) :
            Len(SplitLines(ret.content)[j]) + 1 <= ret.cfg.max_chunk_size)
    => \A i \in 1..Len(ret.result) :
           Len(ret.result[i].content) <= ret.cfg.max_chunk_size

\* The step is index_file(path) without force.
PlainIndexStep(path) ==
    /\ nops' = nops + 1
    /\ ret'.op = "index_file"
    /\ ret'.path = path
    /\ ~ret'.force

\* C27: after remove_file(path) has removed a file's chunks, index_file(path)
\* without force on the unchanged file indexes it again: its chunks are back
\* in the vector store.
C27_RemovedFileIndexedAgain ==
    [][(/\ ret.op = "remove_file"
        /\ ret.result > 0
        /\ ~ret.raised
        /\ ~IsNone(fs[ret.path])
        /\ PlainIndexStep(ret.path))
       => (/\ ret'.result # <<>>
           /\ get_chunks_by_file(indexer'.store, ret.path) # <<>>)]_vars

\* C28: after index_file(path, force=True) returns successfully the
\* fingerprint table holds the hash of the file's content, and a following
\* index_file(path) without force returns no chunk and embeds nothing.
C28_ForcedRunRecordsFingerprint ==
    [][(/\ ret.op = "index_file"
        /\ ret.force
        /\ ~ret.raised
        /\ ~IsNone(fs[ret.path])
        /\ PlainIndexStep(ret.path))
       => (/\ HasKey(indexer.file_hashes, ret.path)
           /\ Get(indexer.file_hashes, ret.path)
                  = _compute_file_hash(fs[ret.path][1])
           /\ ret'.result = <<>>
           /\ IsNone(ret'.embedded))]_vars

RECURSIVE SumLanguages(_)
SumLanguages(languages) ==
    IF languages = <<>> THEN 0
    ELSE Head(languages)[2] + SumLanguages(Tail(languages))

\* C30: the statistics get_stats returns are consistent with the vector
\* store: total_chunks is the store's count and the per-language chunk
\* counts add up to total_chunks.
C30_StatsMatchStore ==
    ret.op = "get_stats" =>
        /\ ret.result.total_chunks = count(indexer.store)
        /\ SumLanguages(ret.result.languages) = ret.result.total_chunks

\* The chunk ids of a store are its vector ids, as its operations show it.
IdsAreVectorIds(st) ==
    /\ Keys(st.chunks) = Keys(st.embeddings)
    /\ \A q \in QueryVectors : Len(search(st, q, count(st), None)) = count(st)
    /\ \A chunk_id \in Keys(st.chunks) :
           delete(st, chunk_id).result /\ ~delete(st, chunk_id).raised

\* C29: in every reachable state of a vector store, also after a reload
\* from disk, the set of chunk ids equals the set of vector ids: count()
\* is the number of results of an unfiltered search with top_k >= count(),
\* and delete of any stored id returns true without raising.
C29_ChunkIdsAreVectorIds == IdsAreVectorIds(findexer.store)

====
